---- MODULE Spec2Model ----
(***************************************************************************)
(* Model of the BMFF hash assertion of c2pa-rs                             *)
(* (sdk/src/assertions/bmff_hash.rs): the Merkle proof replay, the DASH    *)
(* preparation add_merkle_for_mpd, the CBOR round trip of BmffHash and the *)
(* two verifiers verify_stream_hash / verify_stream_segment.               *)
(*                                                                         *)
(* Conventions.                                                            *)
(*  - Option<T> is a sequence: <<>> is None, <<v>> is Some(v).             *)
(*  - A byte string is a sequence of naturals.  A digest is a byte string  *)
(*    built by an ideal (collision-free) hash: hash_stream_by_alg and      *)
(*    concat_and_hash are injective in the algorithm and in their input.   *)
(*  - A stream is a sequence of top-level boxes [path, data, mm]; a box    *)
(*    offset is its position in that sequence, a byte range is a set of    *)
(*    box positions.                                                       *)
(*  - Result<()> is a record [ok |-> BOOLEAN, err |-> kind, msg |-> text]. *)
(***************************************************************************)
EXTENDS Integers, Sequences, FiniteSets, TLC

VARIABLES
    bh,        \* the BmffHash assertion (self)
    srcDir,    \* the .m4s segment files of the source directory
    outDir,    \* the output directory written by add_merkle_for_mpd
    call,      \* the last call made, with its arguments and its result
    wire       \* the Assertion last produced by to_assertion (Option)

vars == <<bh, srcDir, outDir, call, wire>>

---------------------------------------------------------------------------
(* Bounds of the model *)

MaxSegments == 17   \* segment files in the source directory
MaxPeriod == 2      \* segment contents repeat with period 1..MaxPeriod
MaxJunk == 2        \* entries appended to / distinct junk values in a proof

(* Program constants *)

ASSERTION_CREATION_VERSION == 2
max_proofs == 4

None == <<>>
Some(v) == <<v>>
is_some(o) == o # <<>>
unwrap(o) == o[1]

Min(a, b) == IF a < b THEN a ELSE b

\* the sequence f[1], ..., f[n] of a function on 1..n, as a tuple
AsSeq(f) == f \o <<>>

Ok == [ok |-> TRUE, err |-> "", msg |-> ""]
Err(kind, msg) == [ok |-> FALSE, err |-> kind, msg |-> msg]

---------------------------------------------------------------------------
(* utils::hash_utils: the ideal hash *)

SupportedAlgs == {"sha256", "sha384", "sha512"}

AlgCode(alg) ==
    CASE alg = "sha256" -> 256
      [] alg = "sha384" -> 384
      [] alg = "sha512" -> 512
      [] OTHER -> 0

\* digest length in bytes of a supported algorithm
DigestLen(alg) ==
    CASE alg = "sha256" -> 32
      [] alg = "sha384" -> 48
      [] alg = "sha512" -> 64
      [] OTHER -> 0

\* hash_by_alg: the digest of a byte string; empty for an unknown algorithm
hash_by_alg(alg, bytes) ==
    IF alg \in SupportedAlgs THEN <<AlgCode(alg), 0>> \o bytes ELSE <<>>

\* concat_and_hash(alg, left, Some(right)) = H(alg, left || right); digests
\* have a fixed length, so the split between left and right is part of the
\* input: the tag Len(left) + 1 keeps the pair recoverable.
concat_and_hash(alg, left, right) ==
    IF alg \in SupportedAlgs
    THEN <<AlgCode(alg), Len(left) + 1>> \o left \o right
    ELSE <<>>

vec_compare(a, b) == a = b

---------------------------------------------------------------------------
(* utils::merkle: C2PAMerkleTree *)

RECURSIVE to_layout(_)
to_layout(num_leaves) ==
    IF num_leaves <= 1
    THEN <<num_leaves>>
    ELSE <<num_leaves>> \o to_layout((num_leaves + 1) \div 2)

\* one layer up: adjacent nodes are paired, a lone trailing node bubbles up
ParentLayer(layer, alg) ==
    AsSeq([k \in 1..((Len(layer) + 1) \div 2) |->
        IF 2 * k <= Len(layer)
        THEN concat_and_hash(alg, layer[2 * k - 1], layer[2 * k])
        ELSE layer[2 * k - 1]])

RECURSIVE generate_tree(_, _)
generate_tree(layer, alg) ==
    IF Len(layer) <= 1
    THEN <<layer>>
    ELSE <<layer>> \o generate_tree(ParentLayer(layer, alg), alg)

\* C2PAMerkleTree::from_leaves(leaves, alg, false)
from_leaves(leaves, alg) ==
    [leaves |-> leaves, layers |-> generate_tree(leaves, alg), alg |-> alg]

ZeroHash(alg) == AsSeq([k \in 1..DigestLen(alg) |-> 0])

\* C2PAMerkleTree::dummy_tree: the layout filled with placeholder digests
dummy_tree(num_leaves, alg) ==
    LET layout == to_layout(num_leaves) IN
    [leaves |-> AsSeq([k \in 1..num_leaves |-> ZeroHash(alg)]),
     layers |-> AsSeq([d \in 1..Len(layout) |->
                        AsSeq([k \in 1..layout[d] |-> ZeroHash(alg)])]),
     alg |-> alg]

\* the sibling entries of layers k .. depth-1 for the 0-based index idx
RECURSIVE ProofFrom(_, _, _, _)
ProofFrom(layers, k, idx, depth) ==
    IF k >= depth
    THEN <<>>
    ELSE LET layer == layers[k + 1]
             entry == IF idx % 2 = 1
                      THEN <<layer[idx]>>            \* left sibling idx - 1
                      ELSE IF idx + 1 < Len(layer)
                           THEN <<layer[idx + 2]>>   \* right sibling idx + 1
                           ELSE <<>>                 \* lone trailing node
         IN entry \o ProofFrom(layers, k + 1, idx \div 2, depth)

\* C2PAMerkleTree::get_proof_by_index(index, max_depth): the siblings from
\* layer 0 up to (not including) layer min(root_layer, max_depth)
get_proof_by_index(tree, index, max_depth) ==
    ProofFrom(tree.layers, 0, index, Min(Len(tree.layers) - 1, max_depth))

---------------------------------------------------------------------------
(* MerkleMap: proof replay *)

MerkleMap(unique_id, local_id, count, alg, init_hash, hashes) ==
    [unique_id |-> unique_id, local_id |-> local_id, count |-> count,
     alg |-> alg, init_hash |-> init_hash, hashes |-> hashes]

BmffMerkleMap(unique_id, local_id, location, hashes) ==
    [unique_id |-> unique_id, local_id |-> local_id, location |-> location,
     hashes |-> hashes]

\* MerkleMap::hash_check
hash_check(mm, indx, merkle_hash) ==
    IF indx + 1 <= Len(mm.hashes)
    THEN vec_compare(mm.hashes[indx + 1], merkle_hash)
    ELSE FALSE

\* A replay that takes the parity of the index for the side of the sibling
\* but never lets a lone trailing node bubble: it asks for a right sibling
\* that does not exist.
PlaybackStep_NoBubble(alg, hashes, layer, st) ==
    IF st.proof_index + 1 <= Len(hashes)
    THEN [valid |-> TRUE,
          hash |-> IF st.index % 2 = 1
                   THEN concat_and_hash(alg, hashes[st.proof_index + 1], st.hash)
                   ELSE concat_and_hash(alg, st.hash, hashes[st.proof_index + 1]),
          proof_index |-> st.proof_index + 1,
          index |-> st.index \div 2]
    ELSE [st EXCEPT !.valid = FALSE]

\* One iteration of the playback loop of check_merkle_tree, after the break
\* test: st = [valid, hash, proof_index, index].
PlaybackStep(alg, hashes, layer, st) ==
    LET is_right == st.index % 2 = 1
        consume(h) == [valid |-> TRUE, hash |-> h,
                       proof_index |-> st.proof_index + 1,
                       index |-> st.index \div 2]
        has_proof == st.proof_index + 1 <= Len(hashes)
        skip == [st EXCEPT !.index = st.index \div 2]
        fail == [st EXCEPT !.valid = FALSE]
    IN IF is_right
       THEN IF st.index - 1 < layer
            THEN IF has_proof
                 THEN consume(concat_and_hash(alg, hashes[st.proof_index + 1], st.hash))
                 ELSE fail
            ELSE skip
       ELSE IF st.index + 1 < layer
            THEN IF has_proof
                 THEN consume(concat_and_hash(alg, st.hash, hashes[st.proof_index + 1]))
                 ELSE fail
            ELSE skip

\* the loop `for layer in layers` of check_merkle_tree from the k-th layer on
RECURSIVE Playback(_, _, _, _, _, _)
Playback(mm, alg, hashes, layers, k, st) ==
    IF k > Len(layers) \/ ~st.valid
    THEN st
    ELSE IF layers[k] = Len(mm.hashes)
         THEN st                                     \* break
         ELSE Playback(mm, alg, hashes, layers, k + 1,
                       PlaybackStep(alg, hashes, layers[k], st))

\* MerkleMap::check_merkle_tree(alg, hash, location, proof)
check_merkle_tree(mm, alg, hash, location, proof) ==
    LET st0 == [valid |-> TRUE, hash |-> hash, proof_index |-> 0, index |-> location]
        st == IF is_some(proof)
              THEN Playback(mm, alg, unwrap(proof), to_layout(mm.count), 1, st0)
              ELSE st0
    IN st.valid /\ hash_check(mm, st.index, st.hash)

---------------------------------------------------------------------------
(* Streams, the box scanner and the hasher *)

Box(path, data) == [path |-> path, data |-> data, purpose |-> "", mm |-> None]

\* the C2PA UUID box carrying the CBOR of a BmffMerkleMap
MerkleBox(mm) == [path |-> "uuid", data |-> 0, purpose |-> "merkle", mm |-> Some(mm)]

\* the C2PA UUID box carrying the manifest store
ManifestBox(data) == [path |-> "uuid", data |-> data, purpose |-> "manifest", mm |-> None]

\* tracks: for timed media, the chunks of each track (track id = position),
\* each chunk the sequence of the data of its samples
Stream(boxes) == [wf |-> TRUE, boxes |-> boxes, tracks |-> <<>>]
TimedStream(boxes, tracks) == [wf |-> TRUE, boxes |-> boxes, tracks |-> tracks]
Malformed == [wf |-> FALSE, boxes |-> <<>>, tracks |-> <<>>]

\* positions of the boxes of a stream that satisfy P
Positions(boxes, P(_)) == {k \in 1..Len(boxes) : P(boxes[k])}

is_moof(b) == b.path = "moof"
is_moov(b) == b.path = "moov"
is_merkle_box(b) == b.path = "uuid" /\ b.purpose = "merkle"
is_c2pa_box(b) == b.path = "uuid" /\ b.purpose \in {"merkle", "manifest"}

\* the increasing sequence of the elements of a finite set of naturals
RECURSIVE SortedSeq(_)
SortedSeq(S) ==
    IF S = {}
    THEN <<>>
    ELSE LET m == CHOOSE x \in S : \A y \in S : x <= y
         IN <<m>> \o SortedSeq(S \ {m})

\* read_bmff_c2pa_boxes: the BmffMerkleMaps of the C2PA Merkle boxes in file
\* order, the positions of those boxes, and the box index
read_bmff_c2pa_boxes(stream) ==
    LET at == SortedSeq(Positions(stream.boxes, is_merkle_box)) IN
    [bmff_merkle |-> AsSeq([k \in 1..Len(at) |-> unwrap(stream.boxes[at[k]].mm)]),
     bmff_merkle_box_infos |-> at,
     box_infos |-> stream.boxes]

xpath_of(b) == "/" \o b.path

\* bmff_to_jumbf_exclusions: the boxes matched by the exclusion rules and the
\* C2PA boxes, which are always excluded; in v2 each carries its bmff_offset
bmff_to_jumbf_exclusions(stream, exclusions, v2) ==
    LET xpaths == {exclusions[k].xpath : k \in 1..Len(exclusions)} IN
    {[pos |-> k, bmff_offset |-> v2] :
        k \in {j \in 1..Len(stream.boxes) :
                  \/ xpath_of(stream.boxes[j]) \in xpaths
                  \/ is_c2pa_box(stream.boxes[j])}}

\* HashRange::new over the box positions lo..hi
HashRange(lo, hi) == {[pos |-> k, bmff_offset |-> FALSE] : k \in lo..hi}

\* the payload of a box as bytes: the fields of the BmffMerkleMap of a C2PA
\* Merkle box (each digest behind its length), nothing for the other boxes,
\* whose content is their data
RECURSIVE DigestsBytes(_)
DigestsBytes(hashes) ==
    IF hashes = <<>>
    THEN <<>>
    ELSE <<Len(hashes[1])>> \o hashes[1] \o DigestsBytes(Tail(hashes))

BoxPayload(b) ==
    IF ~is_some(b.mm)
    THEN <<>>
    ELSE LET mm == unwrap(b.mm) IN
         <<mm.unique_id, mm.local_id, mm.location>>
            \o (IF is_some(mm.hashes)
                THEN <<1, Len(unwrap(mm.hashes))>> \o DigestsBytes(unwrap(mm.hashes))
                ELSE <<0>>)

\* the bytes the hasher is fed: the data of every box outside the ranges
\* and, for a range that carries a bmff_offset, the offset of the box
RECURSIVE HashedBytes(_, _, _)
HashedBytes(boxes, ranges, k) ==
    IF k > Len(boxes)
    THEN <<>>
    ELSE LET plain == [pos |-> k, bmff_offset |-> FALSE] \in ranges
             annot == [pos |-> k, bmff_offset |-> TRUE] \in ranges
             fed == IF annot THEN <<2, k>>
                    ELSE IF plain THEN <<>>
                    ELSE <<1, boxes[k].data>> \o BoxPayload(boxes[k])
         IN fed \o HashedBytes(boxes, ranges, k + 1)

\* hash_stream_by_alg(alg, stream, Some(ranges), true): Option of a digest,
\* None for an algorithm that is not supported
hash_stream_by_alg(alg, stream, ranges) ==
    IF alg \in SupportedAlgs
    THEN Some(hash_by_alg(alg, HashedBytes(stream.boxes, ranges, 1)))
    ELSE None

\* verify_stream_by_alg(alg, hash, stream, Some(ranges), true)
verify_stream_by_alg(alg, hash, stream, ranges) ==
    LET h == hash_stream_by_alg(alg, stream, ranges) IN
    is_some(h) /\ vec_compare(hash, unwrap(h))

---------------------------------------------------------------------------
(* The BmffHash assertion *)

\* BmffHash::new(name, alg, url)
new(name, alg, url) ==
    [exclusions |-> <<>>,
     alg |-> Some(alg),
     hash |-> None,
     merkle |-> None,
     name |-> Some(name),
     url |-> url,
     path |-> "",
     bmff_version |-> ASSERTION_CREATION_VERSION,
     merkle_uuid_boxes |-> None]

is_remote_hash(self) == is_some(self.url)

NoCall == [op |-> "none"]

---------------------------------------------------------------------------
(* The source directory of a DASH presentation *)

\* a media segment file: styp, then its fragments (moof + mdat) with content c
Segment(c, moofs) ==
    Stream(<<Box("styp", 0)>>
           \o (IF moofs >= 1 THEN <<Box("moof", 10 + c), Box("mdat", 20 + c)>> ELSE <<Box("mdat", 20 + c)>>)
           \o (IF moofs >= 2 THEN <<Box("moof", 30 + c), Box("mdat", 40 + c)>> ELSE <<>>))

\* the contents of the well-formed segments repeat with a period
Periodic(dir) ==
    \E p \in 1..MaxPeriod :
        \A k \in 1..Len(dir) : dir[k] = Segment(((k - 1) % p) + 1, 1)

\* a segment file is added to the source directory
AddSegment ==
    /\ Len(srcDir) < MaxSegments
    /\ outDir = <<>>
    /\ \E c \in 1..MaxPeriod :
          /\ Periodic(Append(srcDir, Segment(c, 1)))
          /\ srcDir' = Append(srcDir, Segment(c, 1))
    /\ call' = NoCall
    /\ UNCHANGED <<bh, outDir, wire>>

\* the leaf of a segment: its digest minus the exclusions of the assertion
LeafOf(self, alg, seg) ==
    unwrap(hash_stream_by_alg(alg, seg,
               bmff_to_jumbf_exclusions(seg, self.exclusions, self.bmff_version > 1)))

LeavesOf(self, alg, dir) == AsSeq([k \in 1..Len(dir) |-> LeafOf(self, alg, dir[k])])

TreeAlgs == {"sha256", "sha384"}

---------------------------------------------------------------------------
(* The Merkle engine on its own: proofs of a tree replayed against a row *)

CheckCall(kind, mm, alg, hash, location, proof, depth, needed) ==
    [op |-> "check_merkle_tree", kind |-> kind, mm |-> mm, alg |-> alg,
     hash |-> hash, location |-> location, proof |-> proof, depth |-> depth,
     needed |-> needed,
     result |-> check_merkle_tree(mm, alg, hash, location, proof)]

\* the MerkleMap that stores the row layers[depth] of a tree
RowMap(tree, depth) ==
    MerkleMap(1, 1, Len(tree.leaves), Some(tree.alg), None, tree.layers[depth + 1])

\* check_merkle_tree on the proof get_proof_by_index gives for the row
ReplayProof ==
    /\ Len(srcDir) >= 1
    /\ call = NoCall
    /\ \E alg \in TreeAlgs :
        \E tree \in {from_leaves(LeavesOf(bh, alg, srcDir), alg)} :
         \E depth \in 0..(Len(tree.layers) - 1), i \in 0..(Len(srcDir) - 1) :
          \E proof \in {get_proof_by_index(tree, i, depth)} :
            call' = CheckCall("honest", RowMap(tree, depth), alg, tree.leaves[i + 1],
                              i, Some(proof), depth, Len(proof))
    /\ UNCHANGED <<bh, srcDir, outDir, wire>>

\* a digest that is no node of any tree
Junk(alg, j) == hash_by_alg(alg, <<0, j>>)

\* the proofs an honest proof can be turned into: cut short, extended by
\* junk entries, or with one entry replaced
Tampered(alg, proof) ==
    {SubSeq(proof, 1, k) : k \in 0..(Len(proof) - 1)}
    \cup {proof \o AsSeq([k \in 1..j |-> Junk(alg, k)]) : j \in 1..MaxJunk}
    \cup {[proof EXCEPT ![k] = Junk(alg, 1)] : k \in 1..Len(proof)}

\* check_merkle_tree on a proof that is not the one get_proof_by_index gives
ReplayTamperedProof ==
    /\ Len(srcDir) >= 1
    /\ call = NoCall
    /\ \E alg \in TreeAlgs :
        \E tree \in {from_leaves(LeavesOf(bh, alg, srcDir), alg)} :
         \E depth \in 0..(Len(tree.layers) - 1), i \in 0..(Len(srcDir) - 1) :
          \E proof \in {get_proof_by_index(tree, i, depth)} :
            \E bad \in Tampered(alg, proof) :
               call' = CheckCall("tampered", RowMap(tree, depth), alg,
                                 tree.leaves[i + 1], i, Some(bad), depth, Len(proof))
    /\ UNCHANGED <<bh, srcDir, outDir, wire>>

InitTree ==
    /\ bh = new("dash", "sha256", None)
    /\ srcDir = <<>>
    /\ outDir = <<>>
    /\ call = NoCall
    /\ wire = None

NextTree == AddSegment \/ ReplayProof \/ ReplayTamperedProof

SpecTree == InitTree /\ [][NextTree]_vars

IsCheck(kind) == call.op = "check_merkle_tree" /\ call.kind = kind

\* C1: Merkle correctness.  For every tree built from a non-empty leaf
\* sequence, every stored row layers[d] up to the root and every leaf index
\* i, check_merkle_tree accepts leaf i with Some(get_proof_by_index(i, d))
\* against the MerkleMap holding count = |L| and hashes = layers[d].
C1_MerkleCorrectness == IsCheck("honest") => call.result = TRUE

\* C1 witness: the lone trailing leaf 16 of a 17-leaf tree is accepted
\* against the row at depth 4 with an empty (but present) proof, and an
\* inner leaf is accepted with a four-entry proof.
C1_Witness ==
    /\ IsCheck("honest")
    /\ call.mm.count = 17
    /\ call.depth = 4
    /\ call.location = 16
    /\ call.proof = Some(<<>>)
    /\ call.result = TRUE

\* C3: check_merkle_tree returns false for every proof whose number of
\* entries differs from the number of sibling steps needed to ascend from
\* layer 0 to the stored row for the location, be it a proof that runs out
\* before the stored row is reached or one that still has unconsumed entries
\* when it is reached.
C3_WrongLengthRejected ==
    ((IsCheck("honest") \/ IsCheck("tampered"))
        /\ Len(unwrap(call.proof)) # call.needed)
        => call.result = FALSE

\* what check_merkle_tree does with a proof of the wrong length: one that
\* runs out before the stored row is reached is rejected; entries left over
\* when the stored row is reached are never looked at, so a longer proof is
\* accepted exactly when its first entries, as many as are needed, are.
C3_ShortRejectedLongIgnored ==
    (IsCheck("honest") \/ IsCheck("tampered")) =>
        LET p == unwrap(call.proof) IN
        /\ Len(p) < call.needed => call.result = FALSE
        /\ Len(p) > call.needed =>
              call.result = check_merkle_tree(call.mm, call.alg, call.hash,
                                call.location, Some(SubSeq(p, 1, call.needed)))

\* a proof cut short is rejected
C3_WitnessShort ==
    /\ IsCheck("tampered")
    /\ call.needed >= 2
    /\ Len(unwrap(call.proof)) = call.needed - 1
    /\ call.result = FALSE

\* the honest proof followed by two entries that belong to no tree is accepted
C3_WitnessLong ==
    /\ IsCheck("tampered")
    /\ call.needed >= 2
    /\ Len(unwrap(call.proof)) = call.needed + 2
    /\ call.result = TRUE

---------------------------------------------------------------------------
(* BmffHash::add_merkle_for_mpd *)

MinOf(S) == CHOOSE x \in S : \A y \in S : x <= y

InsertAt(seq, pos, e) == SubSeq(seq, 1, pos - 1) \o <<e>> \o SubSeq(seq, pos, Len(seq))

\* insert_data_at(source, dest, first_moof.offset, uuid_box_data)
insert_data_at(seg, location, box) == Stream(InsertAt(seg.boxes, location, box))

\* the proof as it is stored in a BmffMerkleMap: left as it was when empty
StoreProof(old, proof) == IF proof # <<>> THEN Some(proof) ELSE old

\* the error that ends the placeholder loop at a segment, "" when none does
PlaceholderError(seg) ==
    IF ~seg.wf THEN "InvalidAsset"
    ELSE IF Cardinality(Positions(seg.boxes, is_moof)) # 1 THEN "BadParam"
    ELSE ""

\* add_merkle_for_mpd, a leaf loop that hashes the whole file, the C2PA
\* Merkle box with it
mpd_leaves_WholeFile(self, alg, files, ord) ==
    AsSeq([k \in 1..Len(files) |->
             unwrap(hash_stream_by_alg(alg, files[ord[k]], {}))])

\* add_merkle_for_mpd, the leaf loop: the digest of every output file minus
\* the fragment exclusions, in the order of the locations
mpd_leaves(self, alg, files, ord) ==
    AsSeq([k \in 1..Len(files) |->
             unwrap(hash_stream_by_alg(alg, files[ord[k]],
                        bmff_to_jumbf_exclusions(files[ord[k]], self.exclusions,
                                                 self.bmff_version > 1)))])

\* add_merkle_for_mpd, a final pass that writes the proof up to the root
mpd_final_pass_ToRoot(files, ord, m_tree) ==
    LET N == Len(files)
        loc_of(f) == (CHOOSE k \in 1..N : ord[k] = f) - 1
        c2pa(f) == read_bmff_c2pa_boxes(files[f])
        bad == {l \in 0..(N - 1) : Len(c2pa(ord[l + 1]).bmff_merkle) # 1}
        stop == IF bad = {} THEN N ELSE MinOf(bad)
        final(f) ==
            LET bmff_mm == c2pa(f).bmff_merkle[1]
                proof == get_proof_by_index(m_tree, bmff_mm.location,
                                            Len(m_tree.layers))
            IN [bmff_mm EXCEPT !.hashes = StoreProof(bmff_mm.hashes, proof)]
    IN [stop |-> stop,
        out |-> AsSeq([f \in 1..N |->
                  IF loc_of(f) < stop
                  THEN Stream([files[f].boxes EXCEPT
                                 ![c2pa(f).bmff_merkle_box_infos[1]] = MerkleBox(final(f))])
                  ELSE files[f]])]

\* add_merkle_for_mpd, the final pass over the output files: the box of
\* every file, in the order of the locations, gets the proof of the final
\* tree written over it; stop is the location at which the pass ends with
\* an error (the number of files when it ends well)
mpd_final_pass(files, ord, m_tree) ==
    LET N == Len(files)
        loc_of(f) == (CHOOSE k \in 1..N : ord[k] = f) - 1
        c2pa(f) == read_bmff_c2pa_boxes(files[f])
        bad == {l \in 0..(N - 1) : Len(c2pa(ord[l + 1]).bmff_merkle) # 1}
        stop == IF bad = {} THEN N ELSE MinOf(bad)
        final(f) ==
            LET bmff_mm == c2pa(f).bmff_merkle[1]
                proof == get_proof_by_index(m_tree, bmff_mm.location, max_proofs)
            IN [bmff_mm EXCEPT !.hashes = StoreProof(bmff_mm.hashes, proof)]
    IN [stop |-> stop,
        out |-> AsSeq([f \in 1..N |->
                  IF loc_of(f) < stop
                  THEN Stream([files[f].boxes EXCEPT
                                 ![c2pa(f).bmff_merkle_box_infos[1]] = MerkleBox(final(f))])
                  ELSE files[f]])]

\* add_merkle_for_mpd, a MerkleMap that always stores the root of the tree
mpd_merkle_map_Root(alg, N, local_id, unique_id, m_tree) ==
    MerkleMap(unique_id, local_id, N, Some(alg), Some(ZeroHash(alg)),
              m_tree.layers[Len(m_tree.layers)])

\* add_merkle_for_mpd, the MerkleMap of the assertion: the stored row
\* layers[min(max_proofs, root layer)] and the zero placeholder init_hash
mpd_merkle_map(alg, N, local_id, unique_id, m_tree) ==
    LET tree_row == Min(max_proofs, Len(m_tree.layers) - 1) IN
    MerkleMap(unique_id, local_id, N, Some(alg), Some(ZeroHash(alg)),
              m_tree.layers[tree_row + 1])

\* add_merkle_for_mpd(alg, asset_path, output_dir, local_id, unique_id) on a
\* source directory whose listing enumerates the segment files in the order
\* ord (ord[k] is the file that gets location k - 1).  Gives the result, the
\* new value of self.merkle and the segment files of the output directory.
add_merkle_for_mpd(self, alg, dir, ord, local_id, unique_id_opt) ==
    LET N == Len(dir)
        unique_id == IF is_some(unique_id_opt) THEN unwrap(unique_id_opt) ELSE local_id
        loc_of(f) == (CHOOSE k \in 1..N : ord[k] = f) - 1
        dummy == dummy_tree(N, alg)
        \* placeholder pass
        bad1 == {l \in 0..(N - 1) : PlaceholderError(dir[ord[l + 1]]) # ""}
        stop1 == IF bad1 = {} THEN N ELSE MinOf(bad1)
        placeholder(l) ==
            BmffMerkleMap(unique_id, local_id, l,
                          StoreProof(None, get_proof_by_index(dummy, l, max_proofs)))
        out1 == AsSeq([f \in 1..N |->
                    IF loc_of(f) < stop1
                    THEN insert_data_at(dir[f], MinOf(Positions(dir[f].boxes, is_moof)),
                                        MerkleBox(placeholder(loc_of(f))))
                    ELSE dir[f]])
        \* leaves of the files as they now are
        leaves == mpd_leaves(self, alg, out1, ord)
        m_tree == from_leaves(leaves, alg)
        \* final pass
        fin == mpd_final_pass(out1, ord, m_tree)
        stop2 == fin.stop
        out2 == fin.out
        \* the stored row
        mm == mpd_merkle_map(alg, N, local_id, unique_id, m_tree)
    IN IF stop1 < N
       THEN [result |-> Err(PlaceholderError(dir[ord[stop1 + 1]]), "expected 1 moof in fragment"),
             merkle |-> self.merkle, out |-> out1, placed |-> out1]
       ELSE IF N > 0 /\ alg \notin SupportedAlgs
       THEN [result |-> Err("UnsupportedType", ""), merkle |-> self.merkle, out |-> out1,
             placed |-> out1]
       ELSE IF stop2 < N
       THEN [result |-> Err("InvalidAsset", "mp4 fragment Merkle box count wrong"),
             merkle |-> self.merkle, out |-> out2, placed |-> out1]
       ELSE IF alg \notin SupportedAlgs
       THEN [result |-> Err("UnsupportedType", ""), merkle |-> self.merkle, out |-> out2,
             placed |-> out1]
       ELSE [result |-> Ok, merkle |-> Some(<<mm>>), out |-> out2, placed |-> out1]

MaxOdd == 1         \* segment files that are not one styp + moof + mdat

\* a segment that is not a plain one-fragment file: no moof, two moofs, a
\* C2PA Merkle box already in it, or not parsable
OddSegments(c) ==
    {Segment(c, 0), Segment(c, 2), Malformed,
     insert_data_at(Segment(c, 1), 2, MerkleBox(BmffMerkleMap(9, 9, 0, None)))}

IsOdd(seg) == \A c \in 1..MaxPeriod : seg # Segment(c, 1)

AddOddSegment ==
    /\ Len(srcDir) < MaxSegments
    /\ outDir = <<>>
    /\ Cardinality({k \in 1..Len(srcDir) : IsOdd(srcDir[k])}) < MaxOdd
    /\ \E seg \in OddSegments(1) : srcDir' = Append(srcDir, seg)
    /\ call' = NoCall
    /\ UNCHANGED <<bh, outDir, wire>>

\* the orders in which read_dir may enumerate n files: as listed, or reversed
DirOrders(n) == {[k \in 1..n |-> k], [k \in 1..n |-> n + 1 - k]}

MpdAlgs == {"sha256", "sha512", "md5"}
MpdIds == {[local_id |-> 1, unique_id |-> None], [local_id |-> 1, unique_id |-> Some(2)]}

AddMerkleForMpd ==
    /\ outDir = <<>>
    /\ \E alg \in MpdAlgs, ord \in DirOrders(Len(srcDir)), ids \in MpdIds :
        \E r \in {add_merkle_for_mpd(bh, alg, srcDir, ord, ids.local_id, ids.unique_id)} :
          /\ bh' = [bh EXCEPT !.merkle = r.merkle]
          /\ outDir' = r.out
          /\ call' = [op |-> "add_merkle_for_mpd", alg |-> alg, ord |-> ord,
                      local_id |-> ids.local_id, unique_id |-> ids.unique_id,
                      placed |-> r.placed, result |-> r.result]
    /\ UNCHANGED <<srcDir, wire>>

\* check_merkle_tree on the C2PA Merkle box of an output segment, against
\* the MerkleMap add_merkle_for_mpd recorded in the assertion
CheckMpdFragment ==
    /\ call.op = "add_merkle_for_mpd"
    /\ call.result.ok
    /\ \E f \in 1..Len(outDir) :
        \E mm \in {unwrap(bh.merkle)[1]}, box \in {read_bmff_c2pa_boxes(outDir[f]).bmff_merkle[1]} :
          call' = CheckCall("mpd", mm, unwrap(mm.alg), LeafOf(bh, unwrap(mm.alg), outDir[f]),
                            box.location, box.hashes, max_proofs, 0)
    /\ UNCHANGED <<bh, srcDir, outDir, wire>>

InitMpd ==
    /\ bh \in {new("dash", alg, None) : alg \in {"sha256", "sha384"}}
    /\ srcDir = <<>>
    /\ outDir = <<>>
    /\ call = NoCall
    /\ wire = None

NextMpd == AddSegment \/ AddOddSegment \/ AddMerkleForMpd \/ CheckMpdFragment

SpecMpd == InitMpd /\ [][NextMpd]_vars

\* C2: lone trailing leaf end to end.  For every segment count N >= 1 and
\* every location, the BmffMerkleMap add_merkle_for_mpd writes into the
\* segment (hashes absent when the proof is empty) is accepted by
\* check_merkle_tree against the MerkleMap the same call records.
C2_MpdBoxAccepted == IsCheck("mpd") => call.result = TRUE

\* the boxes are accepted as long as the stored row is the root
C2_AcceptedUpToRoot ==
    (IsCheck("mpd") /\ Len(outDir) <= 2 ^ max_proofs) => call.result = TRUE

\* the segment that is refused: the lone trailing one of 2^max_proofs + 1,
\* whose box carries no proof and whose location is past the stored row
C2_Refused ==
    /\ IsCheck("mpd")
    /\ Len(outDir) = 2 ^ max_proofs + 1
    /\ call.location = 2 ^ max_proofs
    /\ call.proof = None
    /\ Len(call.mm.hashes) = 2
    /\ call.result = FALSE

---------------------------------------------------------------------------
(* CBOR (serde) of the assertion and the Assertion container *)

\* CBOR data items
CborNull == [t |-> "null", v |-> <<>>]
CborUint(n) == [t |-> "uint", v |-> n]
CborText(str) == [t |-> "tstr", v |-> str]
CborBytes(b) == [t |-> "bstr", v |-> b]
CborBool(b) == [t |-> "bool", v |-> b]
CborArray(items) == [t |-> "array", v |-> items]
CborMap(m) == [t |-> "map", v |-> m]     \* m: a function from keys to items

\* an Option field that is serialized even when None (as null)
ser_option(o, ser(_)) == IF is_some(o) THEN ser(unwrap(o)) ELSE CborNull

\* an Option field read back: a missing key and null both give None
de_option(m, key, de(_)) ==
    IF key \in DOMAIN m /\ m[key].t # "null" THEN Some(de(m[key])) ELSE None

\* the entries of a map whose key is in keep
Entries(m, keep) == [k \in (DOMAIN m) \cap keep |-> m[k]]

de_v(c) == c.v

ser_seq(items, ser(_)) == CborArray(AsSeq([k \in 1..Len(items) |-> ser(items[k])]))
de_seq(c, de(_)) == AsSeq([k \in 1..Len(c.v) |-> de(c.v[k])])

ExclusionsMap(xpath) ==
    [xpath |-> xpath, length |-> None, data |-> None, subset |-> None,
     version |-> None, flags |-> None, exact |-> None]

ser_SubsetMap(x) == CborMap([offset |-> CborUint(x.offset), length |-> CborUint(x.length)])
de_SubsetMap(c) == [offset |-> c.v.offset.v, length |-> c.v.length.v]

ser_SubsetMaps(x) == ser_seq(x, ser_SubsetMap)
de_SubsetMaps(c) == de_seq(c, de_SubsetMap)

ser_DataMap(x) == CborMap([offset |-> CborUint(x.offset), value |-> CborBytes(x.value)])
de_DataMap(c) == [offset |-> c.v.offset.v, value |-> c.v.value.v]

ser_DataMaps(x) == ser_seq(x, ser_DataMap)
de_DataMaps(c) == de_seq(c, de_DataMap)

\* #[derive(Serialize, Deserialize)] struct ExclusionsMap: every field is
\* written, a None as null
ser_ExclusionsMap(x) ==
    CborMap([xpath |-> CborText(x.xpath),
             length |-> ser_option(x.length, CborUint),
             data |-> ser_option(x.data, ser_DataMaps),
             subset |-> ser_option(x.subset, ser_SubsetMaps),
             version |-> ser_option(x.version, CborUint),
             flags |-> ser_option(x.flags, CborBytes),
             exact |-> ser_option(x.exact, CborBool)])

de_ExclusionsMap(c) ==
    [xpath |-> c.v.xpath.v,
     length |-> de_option(c.v, "length", de_v),
     data |-> de_option(c.v, "data", de_DataMaps),
     subset |-> de_option(c.v, "subset", de_SubsetMaps),
     version |-> de_option(c.v, "version", de_v),
     flags |-> de_option(c.v, "flags", de_v),
     exact |-> de_option(c.v, "exact", de_v)]

\* impl Serialize for VecByteBuf / VecByteBufVisitor
ser_VecByteBuf(x) == ser_seq(x, CborBytes)
de_VecByteBuf(c) == de_seq(c, de_v)

\* the keys of the Option fields that are present (skip_serializing_if)
PresentKeys(x, renames) == {renames[f] : f \in {g \in DOMAIN renames : is_some(x[g])}}

\* #[derive(Serialize, Deserialize)] struct MerkleMap
ser_MerkleMap(x) ==
    CborMap(Entries(
        [uniqueId |-> CborUint(x.unique_id),
         localId |-> CborUint(x.local_id),
         count |-> CborUint(x.count),
         alg |-> ser_option(x.alg, CborText),
         initHash |-> ser_option(x.init_hash, CborBytes),
         hashes |-> ser_VecByteBuf(x.hashes)],
        {"uniqueId", "localId", "count", "hashes"}
            \cup PresentKeys(x, [alg |-> "alg", init_hash |-> "initHash"])))

de_MerkleMap(c) ==
    [unique_id |-> c.v.uniqueId.v,
     local_id |-> c.v.localId.v,
     count |-> c.v.count.v,
     alg |-> de_option(c.v, "alg", de_v),
     init_hash |-> de_option(c.v, "initHash", de_v),
     hashes |-> de_VecByteBuf(c.v.hashes)]

ser_MerkleMaps(x) == ser_seq(x, ser_MerkleMap)
de_MerkleMaps(c) == de_seq(c, de_MerkleMap)

\* #[derive(Serialize)] struct BmffHash: alg, hash, merkle and name are
\* skipped when None; url is never written; path, bmff_version and
\* merkle_uuid_boxes are #[serde(skip)]
ser_BmffHash(x) ==
    CborMap(Entries(
        [exclusions |-> ser_seq(x.exclusions, ser_ExclusionsMap),
         alg |-> ser_option(x.alg, CborText),
         hash |-> ser_option(x.hash, CborBytes),
         merkle |-> ser_option(x.merkle, ser_MerkleMaps),
         name |-> ser_option(x.name, CborText)],
        {"exclusions"}
            \cup PresentKeys(x, [alg |-> "alg", hash |-> "hash",
                                 merkle |-> "merkle", name |-> "name"])))

\* #[derive(Deserialize)] struct BmffHash: url is read when the map has it;
\* the skipped fields take their Default
de_BmffHash(c) ==
    [exclusions |-> de_seq(c.v.exclusions, de_ExclusionsMap),
     alg |-> de_option(c.v, "alg", de_v),
     hash |-> de_option(c.v, "hash", de_v),
     merkle |-> de_option(c.v, "merkle", de_MerkleMaps),
     name |-> de_option(c.v, "name", de_v),
     url |-> de_option(c.v, "url", de_v),
     path |-> "",
     bmff_version |-> 0,
     merkle_uuid_boxes |-> None]

LABEL == "c2pa.hash.bmff"
VERSION == Some(ASSERTION_CREATION_VERSION)

\* AssertionCbor::to_cbor_assertion: the CBOR of self under the label and the
\* version of the assertion type
to_cbor_assertion(self) == [label |-> LABEL, ver |-> VERSION, data |-> ser_BmffHash(self)]

\* AssertionCbor::from_cbor_assertion
from_cbor_assertion(assertion) == de_BmffHash(assertion.data)

get_ver(assertion) == assertion.ver

\* AssertionBase::to_assertion for BmffHash
to_assertion(self) == to_cbor_assertion(self)

\* a from_assertion that leaves bmff_version at its Default
from_assertion_NoVersion(assertion) == from_cbor_assertion(assertion)

\* AssertionBase::from_assertion for BmffHash
from_assertion(assertion) ==
    LET bmff_hash == from_cbor_assertion(assertion)
        ver == IF is_some(get_ver(assertion)) THEN unwrap(get_ver(assertion)) ELSE 1
    IN [bmff_hash EXCEPT !.bmff_version = ver]

---------------------------------------------------------------------------
(* The round trip of the assertion through its Assertion *)

SomeDigest == hash_by_alg("sha256", <<1, 7>>)

CodecExclusions ==
    {<<>>,
     <<ExclusionsMap("/uuid"),
       [ExclusionsMap("/mdat") EXCEPT
           !.length = Some(8),
           !.subset = Some(<<[offset |-> 0, length |-> 4]>>),
           !.data = Some(<<[offset |-> 8, value |-> <<1, 2>>]>>),
           !.version = Some(1),
           !.flags = Some(<<0, 0, 1>>),
           !.exact = Some(TRUE)]>>}

CodecMerkle ==
    {None,
     Some(<<>>),
     Some(<<MerkleMap(1, 2, 3, None, None, <<SomeDigest>>),
            MerkleMap(2, 1, 0, Some("sha384"), Some(ZeroHash("sha384")), <<>>)>>)}

\* the assertions the round trip is tried on: built by new, gen_hash,
\* set_merkle and the like, or decoded from a manifest
CodecValues ==
    {[exclusions |-> e, alg |-> a, hash |-> h, merkle |-> m, name |-> n,
      url |-> u, path |-> p, bmff_version |-> v, merkle_uuid_boxes |-> None] :
        e \in CodecExclusions,
        a \in {None, Some("sha256")},
        h \in {None, Some(SomeDigest)},
        m \in CodecMerkle,
        n \in {None, Some("jumbf manifest")},
        u \in {None, Some("https://example.com/a.mp4")},
        p \in {"", "a.mp4"},
        v \in {1, 2}}

ToAssertion ==
    /\ wire' = Some(to_assertion(bh))
    /\ call' = [op |-> "to_assertion"]
    /\ UNCHANGED <<bh, srcDir, outDir>>

FromAssertion ==
    /\ is_some(wire)
    /\ call' = [op |-> "from_assertion", value |-> from_assertion(unwrap(wire))]
    /\ UNCHANGED <<bh, srcDir, outDir, wire>>

InitCodec ==
    /\ bh \in CodecValues
    /\ srcDir = <<>>
    /\ outDir = <<>>
    /\ call = NoCall
    /\ wire = None

NextCodec == ToAssertion \/ FromAssertion

SpecCodec == InitCodec /\ [][NextCodec]_vars

\* C4 as claimed: for every BmffHash x, whatever its url, bmff_version and
\* path, from_assertion(to_assertion(x)) equals x.
C4_RoundTrip == call.op = "from_assertion" => call.value = bh

\* what the Assertion carries of x: everything but url, path and the
\* version, which comes back as the version of the assertion type
NormalForm(x) ==
    [x EXCEPT !.url = None, !.path = "", !.bmff_version = ASSERTION_CREATION_VERSION]

\* C4 amended: from_assertion(to_assertion(x)) is x with url absent, path
\* empty and bmff_version 2; it equals x exactly when x has no url, an
\* empty path and bmff_version 2.
C4_RoundTripNormalForm ==
    call.op = "from_assertion" =>
        /\ call.value = NormalForm(bh)
        /\ (call.value = bh) <=> (bh = NormalForm(bh))

\* C4 witness: an assertion in normal form with alg, hash, merkle, name and
\* exclusions present comes back equal.
C4_Witness ==
    /\ call.op = "from_assertion"
    /\ is_some(bh.alg) /\ is_some(bh.hash) /\ is_some(bh.name)
    /\ is_some(bh.merkle) /\ Len(unwrap(bh.merkle)) = 2
    /\ Len(bh.exclusions) = 2
    /\ bh = NormalForm(bh)
    /\ call.value = bh

---------------------------------------------------------------------------
(* The verifiers *)

\* what a call has done so far: ret is Some(result) once it has returned;
\* log lists the stream reads and digest computations in order
Running(log) == [ret |-> None, log |-> log]
Return(r, result) == [r EXCEPT !.ret = Some(result)]
Ev(ev, what, alg) == [ev |-> ev, what |-> what, alg |-> alg]
Log(r, e) == [r EXCEPT !.log = Append(@, e)]
Finish(r) == IF is_some(r.ret) THEN r ELSE Return(r, Ok)

HashMismatch(msg) == Err("HashMismatch", msg)

\* a curr_alg in which the caller's hint comes first
CurrAlg_HintFirst(self, alg) ==
    IF is_some(alg) THEN unwrap(alg)
    ELSE IF is_some(self.alg) THEN unwrap(self.alg)
    ELSE "sha256"

\* curr_alg: the alg of the assertion, else the caller's, else sha256
CurrAlg(self, alg) ==
    IF is_some(self.alg) THEN unwrap(self.alg)
    ELSE IF is_some(alg) THEN unwrap(alg)
    ELSE "sha256"

\* the algorithm of a MerkleMap in verify_stream_hash: its own, else the
\* assertion's, else none ("no algorithm found")
MmAlg(self, mm) ==
    IF is_some(mm.alg) THEN mm.alg ELSE self.alg

\* split_fragment_boxes, when the first run starts at the first box of the
\* file
split_fragment_boxes_FromStart(boxes) ==
    LET moofs == SortedSeq(Positions(boxes, is_moof)) IN
    AsSeq([j \in 1..Len(moofs) |->
        LET lo == IF j = 1 THEN 1 ELSE moofs[j]
            hi == IF j < Len(moofs) THEN moofs[j + 1] - 1 ELSE Len(boxes)
        IN  AsSeq([i \in 1..(hi - lo + 1) |-> lo + i - 1])])

\* BmffHash::split_fragment_boxes: the runs of box positions that start at
\* a moof, from the first moof on
split_fragment_boxes(boxes) ==
    LET moofs == SortedSeq(Positions(boxes, is_moof)) IN
    AsSeq([j \in 1..Len(moofs) |->
        AsSeq([i \in 1..((IF j < Len(moofs) THEN moofs[j + 1] - 1 ELSE Len(boxes))
                          - moofs[j] + 1) |-> moofs[j] + i - 1])])

\* BmffHash::split_bmff_merkle_map: the boxes cut into runs of m.count, keyed
\* by local_id.  Vec::split_off panics when count exceeds what is left.
RECURSIVE SplitRuns(_, _, _, _)
SplitRuns(mm_vec, k, current, output) ==
    IF k > Len(mm_vec)
    THEN [panic |-> FALSE, err |-> FALSE, map |-> output]
    ELSE LET m == mm_vec[k] IN
         IF m.count > Len(current)
         THEN [panic |-> TRUE, err |-> FALSE, map |-> output]
         ELSE SplitRuns(mm_vec, k + 1, SubSeq(current, m.count + 1, Len(current)),
                        (m.local_id :> SubSeq(current, 1, m.count)) @@ output)

split_bmff_merkle_map(self, bmff_merkle_map) ==
    IF is_some(self.merkle)
    THEN SplitRuns(unwrap(self.merkle), 1, bmff_merkle_map, <<>>)
    ELSE [panic |-> FALSE, err |-> FALSE, map |-> (0 :> bmff_merkle_map)]

\* an init loop that lets an init_hash pass when the asset has no moof
InitHashLoop_SkipUnfragmented(self, reader, exclusions, first_moof, mm_vec, k, r) ==
    IF \E i \in 1..Len(mm_vec) : ~is_some(MmAlg(self, mm_vec[i]))
    THEN Return(r, HashMismatch("no algorithm found"))
    ELSE IF ~is_some(first_moof)
    THEN r
    ELSE LET size == Len(reader.boxes)
             wrong == {i \in 1..Len(mm_vec) :
                         /\ is_some(mm_vec[i].init_hash)
                         /\ ~verify_stream_by_alg(unwrap(MmAlg(self, mm_vec[i])),
                               unwrap(mm_vec[i].init_hash), reader,
                               exclusions \cup HashRange(unwrap(first_moof), size))}
         IN IF wrong = {}
            THEN r
            ELSE Return(r, HashMismatch("BMFF file level hash mismatch"))

\* verify_stream_hash, the loop over the MerkleMaps that checks init_hash
RECURSIVE InitHashLoop(_, _, _, _, _, _, _)
InitHashLoop(self, reader, exclusions, first_moof, mm_vec, k, r) ==
    IF k > Len(mm_vec) \/ is_some(r.ret)
    THEN r
    ELSE LET mm == mm_vec[k]
             alg == MmAlg(self, mm)
             size == Len(reader.boxes)
             checked == Log(r, Ev("verify", "init", unwrap(alg)))
             next ==
                IF ~is_some(alg)
                THEN Return(r, HashMismatch("no algorithm found"))
                ELSE IF ~is_some(mm.init_hash)
                THEN r
                ELSE IF ~is_some(first_moof)
                THEN Return(r, HashMismatch(
                        "BMFF inithash must not be present for non-fragmented media"))
                ELSE IF ~verify_stream_by_alg(unwrap(alg), unwrap(mm.init_hash), reader,
                            exclusions \cup HashRange(unwrap(first_moof), size))
                THEN Return(checked, HashMismatch("BMFF file level hash mismatch"))
                ELSE checked
         IN InitHashLoop(self, reader, exclusions, first_moof, mm_vec, k + 1, next)

\* curr_exclusions of a moof chunk: the exclusions of the file, everything
\* before the first box of the chunk and everything after its last box
chunk_exclusions(reader, exclusions, boxes) ==
    exclusions \cup HashRange(1, boxes[1] - 1)
               \cup HashRange(boxes[Len(boxes)] + 1, Len(reader.boxes))

\* verify_stream_hash, fragmented file: the loop over the moof chunks
RECURSIVE ChunkLoop(_, _, _, _, _, _, _, _)
ChunkLoop(reader, exclusions, bmff_merkle, mm, alg, moof_chunks, k, r) ==
    IF k > Len(moof_chunks) \/ is_some(r.ret)
    THEN r
    ELSE LET boxes == moof_chunks[k]
             curr_exclusions == chunk_exclusions(reader, exclusions, boxes)
             hash == hash_stream_by_alg(alg, reader, curr_exclusions)
             bmff_mm == bmff_merkle[k]
             hashed == Log(r, Ev("hash", "chunk", alg))
             next ==
                IF ~is_some(hash)
                THEN Return(r, Err("UnsupportedType", ""))
                ELSE IF ~check_merkle_tree(mm, alg, unwrap(hash), bmff_mm.location,
                                           bmff_mm.hashes)
                THEN Return(hashed, HashMismatch("Fragment not valid"))
                ELSE hashed
         IN ChunkLoop(reader, exclusions, bmff_merkle, mm, alg, moof_chunks, k + 1, next)

\* verify_stream_hash, fragmented file: the loop over the MerkleMaps
RECURSIVE FragmentedLoop(_, _, _, _, _, _, _)
FragmentedLoop(self, reader, exclusions, bmff_merkle, mm_vec, k, r) ==
    IF k > Len(mm_vec) \/ is_some(r.ret)
    THEN r
    ELSE LET mm == mm_vec[k]
             alg == MmAlg(self, mm)
             moof_chunks == split_fragment_boxes(reader.boxes)
             next ==
                IF ~is_some(alg)
                THEN Return(r, HashMismatch("no algorithm found"))
                ELSE IF Len(moof_chunks) # mm.count \/ Len(bmff_merkle) # mm.count
                THEN Return(r, HashMismatch("Incorrect number of fragments hashes"))
                ELSE ChunkLoop(reader, exclusions, bmff_merkle, mm, unwrap(alg),
                               moof_chunks, 1, r)
         IN FragmentedLoop(self, reader, exclusions, bmff_merkle, mm_vec, k + 1, next)


\* an abnormal end of the call (a Rust panic), not an Err
Panic(msg) == Err("panic", msg)

\* the digest of a chunk of a track: its samples in sample-id order
ChunkDigest(alg, chunk) == hash_by_alg(alg, chunk)

\* verify_stream_hash, timed media: one MerkleMap against its track
TimedTrack(reader, track_to_bmff_merkle_map, mm, alg, r) ==
    LET track_id == mm.local_id
        chunks == reader.tracks[track_id]
        sample_cnt == Len(chunks)            \* every chunk has a sample
        hashed == [r EXCEPT !.log = @ \o AsSeq([c \in 1..Len(chunks) |->
                                                  Ev("hash", "chunk", alg)])]
        mine == track_to_bmff_merkle_map[track_id]
        \* leaf loop: chunk_hash_map.remove(location + 1)
        no_leaf == {j \in 1..Len(mine) :
                       \/ mine[j].location + 1 \notin 1..Len(chunks)
                       \/ \E i \in 1..(j - 1) : mine[i].location = mine[j].location}
        leaf_hashes == AsSeq([j \in 1..Len(mine) |->
                                ChunkDigest(alg, chunks[mine[j].location + 1])])
        \* check loop: leaf_hashes[location]
        outcome(j) ==
            IF mine[j].location + 1 > Len(leaf_hashes) THEN "panic"
            ELSE IF ~check_merkle_tree(mm, alg, leaf_hashes[mine[j].location + 1],
                                       mine[j].location, mine[j].hashes)
            THEN "invalid"
            ELSE "ok"
        not_ok == {j \in 1..Len(mine) : outcome(j) # "ok"}
    IN IF sample_cnt = 0
       THEN Return(r, Err("InvalidAsset", "No samples"))
       ELSE IF alg \notin SupportedAlgs
       THEN Return(r, HashMismatch("no algorithm found"))
       ELSE IF track_id \notin DOMAIN track_to_bmff_merkle_map
       THEN Return(hashed, Panic("no entry found for key"))
       ELSE IF no_leaf # {}
       THEN Return(hashed, HashMismatch("Could not generate hash"))
       ELSE IF not_ok = {}
       THEN hashed
       ELSE IF outcome(MinOf(not_ok)) = "panic"
       THEN Return(hashed, Panic("index out of bounds"))
       ELSE Return(hashed, HashMismatch("Fragment not valid"))

\* verify_stream_hash, timed media: the loop over the MerkleMaps
RECURSIVE TimedLoop(_, _, _, _, _, _)
TimedLoop(self, reader, track_to_bmff_merkle_map, mm_vec, k, r) ==
    IF k > Len(mm_vec) \/ is_some(r.ret)
    THEN r
    ELSE LET mm == mm_vec[k]
             alg == MmAlg(self, mm)
             track_count == Len(reader.tracks)
             next ==
                IF ~is_some(alg)
                THEN Return(r, HashMismatch("no algorithm found"))
                ELSE IF track_count = 0
                THEN r
                ELSE IF mm.local_id \notin DOMAIN reader.tracks
                THEN Return(r, HashMismatch("Merkle location not found"))
                ELSE TimedTrack(reader, track_to_bmff_merkle_map, mm, unwrap(alg), r)
         IN TimedLoop(self, reader, track_to_bmff_merkle_map, mm_vec, k + 1, next)

\* verify_stream_hash, the part under: if let Some(mm_vec) = self.merkle()
VerifyMerkle(self, reader, exclusions, mm_vec, r0) ==
    LET r1 == Log(r0, Ev("boxes", "file", ""))
        c2pa_boxes == read_bmff_c2pa_boxes(reader)
        bmff_merkle == c2pa_boxes.bmff_merkle
        box_infos == c2pa_boxes.box_infos
        moofs == Positions(box_infos, is_moof)
        first_moof == IF moofs = {} THEN None ELSE Some(MinOf(moofs))
        is_fragmented == is_some(first_moof)
        r2 == InitHashLoop(self, reader, exclusions, first_moof, mm_vec, 1, r1)
        split == split_bmff_merkle_map(self, bmff_merkle)
        track_to_bmff_merkle_map == IF bmff_merkle = <<>> THEN <<>> ELSE split.map
    IN IF is_some(r2.ret)
       THEN r2
       ELSE IF is_fragmented
       THEN Finish(FragmentedLoop(self, reader, exclusions, bmff_merkle, mm_vec, 1, r2))
       ELSE IF Positions(box_infos, is_moov) # {}
       THEN IF bmff_merkle # <<>> /\ split.panic
            THEN Return(r2, Panic("split_off index is out of bounds"))
            ELSE TimedLoop(self, reader, track_to_bmff_merkle_map, mm_vec, 1, r2)
       ELSE Return(r2, HashMismatch("Merkle iloc not yet supported"))

\* BmffHash::verify_stream_hash(reader, alg): [ret |-> Some(result), log]
verify_stream_hash(self, reader, alg) ==
    LET curr_alg == CurrAlg(self, alg)
        exclusions == bmff_to_jumbf_exclusions(reader, self.exclusions, self.bmff_version > 1)
        r0 == Log(Running(<<>>), Ev("exclusions", "file", ""))
        r1 == Log(r0, Ev("verify", "file", curr_alg))
        r2 == IF is_some(self.hash) THEN r1 ELSE r0
    IN IF is_remote_hash(self)
       THEN Return(Running(<<>>), Err("BadParam", "asset hash is remote, not yet supported"))
       ELSE IF ~reader.wf
       THEN Return(r0, Err("InvalidAsset", ""))
       ELSE IF is_some(self.hash)
               /\ ~verify_stream_by_alg(curr_alg, unwrap(self.hash), reader, exclusions)
       THEN Return(r1, HashMismatch("BMFF file level hash mismatch"))
       ELSE IF is_some(self.merkle)
       THEN Finish(VerifyMerkle(self, reader, exclusions, unwrap(self.merkle), r2))
       ELSE Return(r2, Ok)

\* BmffHash::verify_hash(asset_path, alg): file is None when the path
\* cannot be opened
verify_hash(self, file, alg) ==
    IF ~is_some(file)
    THEN Return(Running(<<>>), Err("Io", ""))
    ELSE verify_stream_hash(self, unwrap(file), alg)

\* BmffHash::verify_in_memory_hash(data, alg)
verify_in_memory_hash(self, data, alg) == verify_stream_hash(self, data, alg)


\* an init-hash loop that looks at the first MerkleMap only
SegmentInitLoop_FirstOnly(curr_alg, init_stream, exclusions, mm_vec, k, r) ==
    IF mm_vec = <<>>
    THEN r
    ELSE IF ~is_some(mm_vec[1].init_hash)
    THEN Return(r, HashMismatch("fragmented MP4 must have initHash"))
    ELSE IF ~verify_stream_by_alg(curr_alg, unwrap(mm_vec[1].init_hash),
                                  init_stream, exclusions)
    THEN Return(Log(r, Ev("verify", "init", curr_alg)),
                HashMismatch("BMFF inithash mismatch"))
    ELSE Log(r, Ev("verify", "init", curr_alg))

\* verify_stream_segment, the loop that checks the init hashes
RECURSIVE SegmentInitLoop(_, _, _, _, _, _)
SegmentInitLoop(curr_alg, init_stream, exclusions, mm_vec, k, r) ==
    IF k > Len(mm_vec) \/ is_some(r.ret)
    THEN r
    ELSE LET mm == mm_vec[k]
             checked == Log(r, Ev("verify", "init", curr_alg))
             next ==
                IF ~is_some(mm.init_hash)
                THEN Return(r, HashMismatch("fragmented MP4 must have initHash"))
                ELSE IF ~verify_stream_by_alg(curr_alg, unwrap(mm.init_hash),
                                              init_stream, exclusions)
                THEN Return(checked, HashMismatch("BMFF inithash mismatch"))
                ELSE checked
         IN SegmentInitLoop(curr_alg, init_stream, exclusions, mm_vec, k + 1, next)

\* a box loop that checks the first BmffMerkleMap box of the fragment only
SegmentBoxLoop_FirstOnly(self, curr_alg, fragment_stream, mm_vec, bmff_merkle, k, r) ==
    LET bmff_mm == bmff_merkle[1]
        found == {j \in 1..Len(mm_vec) :
                     /\ mm_vec[j].unique_id = bmff_mm.unique_id
                     /\ mm_vec[j].local_id = bmff_mm.local_id}
        mm == mm_vec[MinOf(found)]
        alg == IF is_some(mm.alg) THEN unwrap(mm.alg) ELSE curr_alg
        hash == hash_stream_by_alg(alg, fragment_stream,
                    bmff_to_jumbf_exclusions(fragment_stream, self.exclusions,
                                             self.bmff_version > 1))
        r1 == Log(r, Ev("exclusions", "fragment", ""))
        r2 == Log(r1, Ev("hash", "fragment", alg))
    IN IF found = {}
       THEN Return(r, HashMismatch("Fragment had no MerkleMap"))
       ELSE IF ~is_some(hash)
       THEN Return(r1, Err("UnsupportedType", ""))
       ELSE IF ~check_merkle_tree(mm, alg, unwrap(hash), bmff_mm.location,
                                  bmff_mm.hashes)
       THEN Return(r2, HashMismatch("Fragment not valid"))
       ELSE r2

\* verify_stream_segment, the loop over the BmffMerkleMaps of the fragment
RECURSIVE SegmentBoxLoop(_, _, _, _, _, _, _)
SegmentBoxLoop(self, curr_alg, fragment_stream, mm_vec, bmff_merkle, k, r) ==
    IF k > Len(bmff_merkle) \/ is_some(r.ret)
    THEN r
    ELSE LET bmff_mm == bmff_merkle[k]
             found == {j \in 1..Len(mm_vec) :
                          /\ mm_vec[j].unique_id = bmff_mm.unique_id
                          /\ mm_vec[j].local_id = bmff_mm.local_id}
             mm == mm_vec[MinOf(found)]
             alg == IF is_some(mm.alg) THEN unwrap(mm.alg) ELSE curr_alg
             fragment_exclusions ==
                bmff_to_jumbf_exclusions(fragment_stream, self.exclusions,
                                         self.bmff_version > 1)
             hash == hash_stream_by_alg(alg, fragment_stream, fragment_exclusions)
             r1 == Log(r, Ev("exclusions", "fragment", ""))
             r2 == Log(r1, Ev("hash", "fragment", alg))
             next ==
                IF found = {}
                THEN Return(r, HashMismatch("Fragment had no MerkleMap"))
                ELSE IF ~is_some(hash)
                THEN Return(r1, Err("UnsupportedType", ""))
                ELSE IF ~check_merkle_tree(mm, alg, unwrap(hash), bmff_mm.location,
                                           bmff_mm.hashes)
                THEN Return(r2, HashMismatch("Fragment not valid"))
                ELSE r2
         IN SegmentBoxLoop(self, curr_alg, fragment_stream, mm_vec, bmff_merkle, k + 1, next)

\* a fragment check that passes a fragment without a BmffMerkleMap box
SegmentFragment_SkipEmpty(self, curr_alg, fragment_stream, mm_vec, r) ==
    IF ~fragment_stream.wf
    THEN Return(Log(r, Ev("boxes", "fragment", "")), Err("InvalidAsset", ""))
    ELSE Finish(SegmentBoxLoop(self, curr_alg, fragment_stream, mm_vec,
                               read_bmff_c2pa_boxes(fragment_stream).bmff_merkle, 1,
                               Log(r, Ev("boxes", "fragment", ""))))

\* verify_stream_segment from the read of the fragment on
SegmentFragment(self, curr_alg, fragment_stream, mm_vec, r) ==
    LET r1 == Log(r, Ev("boxes", "fragment", ""))
        bmff_merkle == read_bmff_c2pa_boxes(fragment_stream).bmff_merkle
    IN IF ~fragment_stream.wf
       THEN Return(r1, Err("InvalidAsset", ""))
       ELSE IF bmff_merkle = <<>>
       THEN Return(r1, HashMismatch("Fragment had no MerkleMap"))
       ELSE Finish(SegmentBoxLoop(self, curr_alg, fragment_stream, mm_vec,
                                  bmff_merkle, 1, r1))

\* a verify_stream_segment that lets a file-level hash pass
SegmentGuard_AllowHash(self) == None

\* verify_stream_segment, the checks made before any stream is touched:
\* Some(error) when the call ends there
SegmentGuard(self) ==
    IF is_some(self.hash)
    THEN Some(HashMismatch("Hash value should not be present for a fragmented BMFF asset"))
    ELSE None

\* a verify_stream_segment that checks the fragment first and the init
\* hashes after it
verify_stream_segment_FragmentFirst(self, init_stream, fragment_stream, alg) ==
    LET curr_alg == CurrAlg(self, alg)
        exclusions == bmff_to_jumbf_exclusions(init_stream, self.exclusions,
                                               self.bmff_version > 1)
        r0 == Log(Running(<<>>), Ev("exclusions", "init", ""))
        r1 == IF is_some(fragment_stream)
              THEN [SegmentFragment(self, curr_alg, unwrap(fragment_stream),
                                    unwrap(self.merkle), r0) EXCEPT
                       !.ret = IF @ = Some(Ok) THEN None ELSE @]
              ELSE r0
    IN IF is_some(SegmentGuard(self))
       THEN Return(Running(<<>>), unwrap(SegmentGuard(self)))
       ELSE IF ~is_some(self.merkle)
       THEN Return(Running(<<>>), HashMismatch(
                "Merkle value must be present for a fragmented BMFF asset"))
       ELSE IF ~init_stream.wf
       THEN Return(r0, Err("InvalidAsset", ""))
       ELSE IF is_some(r1.ret)
       THEN r1
       ELSE Finish(SegmentInitLoop(curr_alg, init_stream, exclusions,
                                   unwrap(self.merkle), 1, r1))

\* BmffHash::verify_stream_segment(init_stream, fragment_stream, alg):
\* [ret |-> Some(result), log]
verify_stream_segment(self, init_stream, fragment_stream, alg) ==
    LET curr_alg == CurrAlg(self, alg)
        guard == SegmentGuard(self)
        exclusions == bmff_to_jumbf_exclusions(init_stream, self.exclusions,
                                               self.bmff_version > 1)
        r0 == Log(Running(<<>>), Ev("exclusions", "init", ""))
        r1 == SegmentInitLoop(curr_alg, init_stream, exclusions, unwrap(self.merkle), 1, r0)
    IN IF is_some(guard)
       THEN Return(Running(<<>>), unwrap(guard))
       ELSE IF ~is_some(self.merkle)
       THEN Return(Running(<<>>), HashMismatch(
                "Merkle value must be present for a fragmented BMFF asset"))
       ELSE IF ~init_stream.wf
       THEN Return(r0, Err("InvalidAsset", ""))
       ELSE IF is_some(r1.ret)
       THEN r1
       ELSE IF ~is_some(fragment_stream)
       THEN Return(r1, Ok)
       ELSE SegmentFragment(self, curr_alg, unwrap(fragment_stream),
                            unwrap(self.merkle), r1)


\* an update_mpd_hash that seals every MerkleMap of the assertion
update_mpd_hash_All(self, init_stream) ==
    LET mm == unwrap(self.merkle)
        curr_alg == IF is_some(mm[1].alg) THEN unwrap(mm[1].alg)
                    ELSE IF is_some(self.alg) THEN unwrap(self.alg)
                    ELSE "sha256"
        hash == hash_stream_by_alg(curr_alg, init_stream,
                    bmff_to_jumbf_exclusions(init_stream, self.exclusions,
                                             self.bmff_version > 1))
    IN IF ~is_some(self.merkle)
       THEN [result |-> Err("BadParam", "expected MPD Merkle object"), merkle |-> self.merkle]
       ELSE IF mm = <<>>
       THEN [result |-> Err("NotFound", ""), merkle |-> self.merkle]
       ELSE IF ~init_stream.wf
       THEN [result |-> Err("InvalidAsset", ""), merkle |-> self.merkle]
       ELSE IF ~is_some(hash)
       THEN [result |-> Err("UnsupportedType", ""), merkle |-> self.merkle]
       ELSE [result |-> Ok,
             merkle |-> Some(AsSeq([k \in 1..Len(mm) |->
                                      [mm[k] EXCEPT !.init_hash = hash]]))]

\* BmffHash::update_mpd_hash(asset_path): the result and the new self.merkle
update_mpd_hash(self, init_stream) ==
    LET mm == unwrap(self.merkle)
        mpd_mm == mm[1]
        curr_alg == IF is_some(mpd_mm.alg) THEN unwrap(mpd_mm.alg)
                    ELSE IF is_some(self.alg) THEN unwrap(self.alg)
                    ELSE "sha256"
        exclusions == bmff_to_jumbf_exclusions(init_stream, self.exclusions,
                                               self.bmff_version > 1)
        hash == hash_stream_by_alg(curr_alg, init_stream, exclusions)
    IN IF ~is_some(self.merkle)
       THEN [result |-> Err("BadParam", "expected MPD Merkle object"), merkle |-> self.merkle]
       ELSE IF mm = <<>>
       THEN [result |-> Err("NotFound", ""), merkle |-> self.merkle]
       ELSE IF ~init_stream.wf
       THEN [result |-> Err("InvalidAsset", ""), merkle |-> self.merkle]
       ELSE IF ~is_some(hash)
       THEN [result |-> Err("UnsupportedType", ""), merkle |-> self.merkle]
       ELSE [result |-> Ok,
             merkle |-> Some([mm EXCEPT ![1] = [mpd_mm EXCEPT !.init_hash = hash]])]

---------------------------------------------------------------------------
(* The verifiers at work: assets, the assertions made for them, the calls *)

\* the init segment of a DASH presentation, and a copy with a byte changed
InitSegment ==
    Stream(<<Box("ftyp", 1), ManifestBox(5), Box("moov", 2), Box("free", 3)>>)
TamperedInit ==
    Stream(<<Box("ftyp", 1), ManifestBox(5), Box("moov", 9), Box("free", 3)>>)

\* the media segments of the presentation before they are prepared
DashDir == <<Segment(1, 1), Segment(2, 1), Segment(1, 1)>>

\* the presentation prepared by add_merkle_for_mpd with algorithm alg
Dash(self, alg) ==
    add_merkle_for_mpd(self, alg, DashDir, [k \in 1..Len(DashDir) |-> k], 1, None)

\* a box of a fragment that belongs to no MerkleMap of the assertions here
StrayBox == MerkleBox(BmffMerkleMap(7, 7, 0, None))

\* an asset that holds all its fragments in one file, each fragment behind
\* its C2PA Merkle box
FragBoxes(b0, b1) ==
    <<Box("ftyp", 1), ManifestBox(5), Box("moov", 2), Box("free", 3),
      MerkleBox(b0), Box("moof", 11), Box("mdat", 21),
      MerkleBox(b1), Box("moof", 12), Box("mdat", 22)>>

\* the fragmented single-file asset and the merkle of its assertion, as a
\* claim generator lays them out for algorithm alg
FragFixture(self, alg) ==
    LET blank == BmffMerkleMap(1, 0, 0, None)
        skeleton == Stream(FragBoxes(blank, blank))
        size == Len(skeleton.boxes)
        excl == bmff_to_jumbf_exclusions(skeleton, self.exclusions, self.bmff_version > 1)
        chunks == split_fragment_boxes(skeleton.boxes)
        leaves == AsSeq([k \in 1..Len(chunks) |->
                    unwrap(hash_stream_by_alg(alg, skeleton,
                        excl \cup HashRange(1, chunks[k][1] - 1)
                             \cup HashRange(chunks[k][Len(chunks[k])] + 1, size)))])
        tree == from_leaves(leaves, alg)
        root == Len(tree.layers) - 1
        box(i) == BmffMerkleMap(1, 0, i, StoreProof(None, get_proof_by_index(tree, i, root)))
        asset == Stream(FragBoxes(box(0), box(1)))
        init_hash == hash_stream_by_alg(alg, asset,
                        excl \cup HashRange(MinOf(Positions(asset.boxes, is_moof)), size))
    IN [asset |-> asset,
        merkle |-> Some(<<MerkleMap(1, 0, Len(chunks), Some(alg), init_hash,
                                    tree.layers[root + 1])>>)]

\* a timed-media asset with one track of two chunks, and its merkle
TimedFixture(alg) ==
    LET tracks == << << <<31, 32>>, <<33>> >> >>
        leaves == AsSeq([k \in 1..Len(tracks[1]) |-> ChunkDigest(alg, tracks[1][k])])
        tree == from_leaves(leaves, alg)
        root == Len(tree.layers) - 1
        box(i) == BmffMerkleMap(1, 1, i, StoreProof(None, get_proof_by_index(tree, i, root)))
    IN [asset |-> TimedStream(<<Box("ftyp", 1), ManifestBox(5), Box("moov", 2),
                                MerkleBox(box(0)), MerkleBox(box(1)), Box("mdat", 4)>>,
                              tracks),
        merkle |-> Some(<<MerkleMap(1, 1, Len(leaves), Some(alg), None,
                                    tree.layers[root + 1])>>)]

\* a copy of a stream with the data of its last box changed
TamperedCopy(stream) ==
    [stream EXCEPT !.boxes[Len(stream.boxes)].data = @ + 1]

Hints == {None, Some("sha256"), Some("sha384")}

\* the digest of the init segment under alg, as the assertion excludes
InitDigest(self, alg) ==
    hash_stream_by_alg(alg, InitSegment,
        bmff_to_jumbf_exclusions(InitSegment, self.exclusions, self.bmff_version > 1))

\* the merkle lists of the assertions verified here, as add_merkle_for_mpd
\* leaves them (init_hash still the zero placeholder) or as a manifest
\* made elsewhere carries them
MerkleValues(self) ==
    LET d256 == unwrap(Dash(self, "sha256").merkle)[1]
        d384 == unwrap(Dash(self, "sha384").merkle)[1]
    IN {None, Some(<<>>),
        Some(<<d256>>), Some(<<d384>>),
        Some(<<[d256 EXCEPT !.alg = None]>>),
        Some(<<[d256 EXCEPT !.init_hash = None]>>),
        Some(<<[d256 EXCEPT !.alg = Some("md5"), !.init_hash = InitDigest(self, "sha256")]>>),
        Some(<<d256, [d256 EXCEPT !.unique_id = 2, !.init_hash = None]>>),
        Some(<<[d256 EXCEPT !.unique_id = 2, !.init_hash = None], d256>>),
        Some(<<d256, [d256 EXCEPT !.unique_id = 2,
                                  !.init_hash = InitDigest(self, "sha256")]>>),
        FragFixture(self, "sha256").merkle,
        TimedFixture("sha256").merkle}

\* the assertions before a merkle list is set
VerifyBases ==
    {[new("jumbf manifest", "sha256", u) EXCEPT
         !.alg = a, !.exclusions = <<ExclusionsMap("/free")>>, !.bmff_version = v] :
        a \in {None, Some("sha256"), Some("sha384")},
        u \in {None, Some("https://example.com/a.mp4")},
        v \in {1, ASSERTION_CREATION_VERSION}}

\* the file-level digests an assertion may be given
HashValues(self) ==
    LET asset == FragFixture(self, "sha256").asset
        excl == bmff_to_jumbf_exclusions(asset, self.exclusions, self.bmff_version > 1)
        timed == TimedFixture("sha256").asset
    IN {unwrap(hash_stream_by_alg(a, asset, excl)) : a \in {"sha256", "sha384"}}
       \cup {unwrap(hash_stream_by_alg("sha256", timed,
                bmff_to_jumbf_exclusions(timed, self.exclusions, self.bmff_version > 1)))}
       \cup {SomeDigest}

\* a copy of a stream without its box at position p, and one with that box
\* twice
DropBox(stream, p) ==
    [stream EXCEPT !.boxes = SubSeq(@, 1, p - 1) \o SubSeq(@, p + 1, Len(@))]
RepeatBox(stream, p) ==
    [stream EXCEPT !.boxes = SubSeq(@, 1, p) \o SubSeq(@, p, Len(@))]

\* copies of an asset with fewer, no and more BmffMerkleMap boxes than it
\* was made with
MiscountedCopies(stream) ==
    LET at == Positions(stream.boxes, is_merkle_box)
        last == CHOOSE p \in at : \A q \in at : q <= p
        first == MinOf(at)
    IN {DropBox(stream, last), DropBox(DropBox(stream, last), first),
        RepeatBox(stream, last)}

\* an untimed asset (a still image): neither moof nor moov, its items
\* located by the iloc box of meta
StillImage ==
    Stream(<<Box("ftyp", 1), ManifestBox(5), Box("meta", 6), Box("mdat", 7)>>)

\* the single files handed to verify_stream_hash
Readers(self) ==
    LET frag == FragFixture(self, "sha256").asset IN
    {frag, TamperedCopy(frag), TimedFixture("sha256").asset, InitSegment, Malformed,
     StillImage}
      \cup MiscountedCopies(frag) \cup MiscountedCopies(TimedFixture("sha256").asset)

\* the fragments handed to verify_stream_segment
Fragments(self) ==
    LET out256 == Dash(self, "sha256").out
        out384 == Dash(self, "sha384").out
    IN {out256[1], out256[Len(out256)], out384[1],
        TamperedCopy(out256[1]),
        Stream(Append(out256[1].boxes, StrayBox)),
        Stream(<<StrayBox>> \o TamperedCopy(out256[1]).boxes),
        Segment(1, 1),
        Stream(Append(Segment(1, 1).boxes, StrayBox)),
        Malformed}

VerifyOps ==
    {"verify_stream_hash", "verify_hash", "verify_in_memory_hash", "verify_stream_segment"}

\* a verifier leaves the assertion as it is, so a call that follows it
\* gives nothing it could not give before it
Idle == call.op \notin VerifyOps

VerifyCall(op, reader, alg, r) ==
    [op |-> op, reader |-> reader, alg |-> alg, result |-> unwrap(r.ret), log |-> r.log]

SetHash ==
    /\ Idle
    /\ \E h \in HashValues(bh) : bh' = [bh EXCEPT !.hash = Some(h)]
    /\ call' = [op |-> "set_hash"]
    /\ UNCHANGED <<srcDir, outDir, wire>>

ClearHash ==
    /\ Idle
    /\ bh' = [bh EXCEPT !.hash = None]
    /\ call' = [op |-> "clear_hash"]
    /\ UNCHANGED <<srcDir, outDir, wire>>

UpdateMpdHash ==
    /\ Idle
    /\ \E init \in {InitSegment, Malformed} :
        \E r \in {update_mpd_hash(bh, init)} :
          /\ bh' = [bh EXCEPT !.merkle = r.merkle]
          /\ call' = [op |-> "update_mpd_hash", init |-> init, result |-> r.result]
    /\ UNCHANGED <<srcDir, outDir, wire>>

VerifyStreamHash ==
    /\ Idle
    /\ \E reader \in Readers(bh), alg \in Hints :
          call' = VerifyCall("verify_stream_hash", reader, alg,
                             verify_stream_hash(bh, reader, alg))
    /\ UNCHANGED <<bh, srcDir, outDir, wire>>

\* the assets handed to the entry points that pass a file or a buffer on
\* to verify_stream_hash
AssetFiles(self) ==
    {FragFixture(self, "sha256").asset, TimedFixture("sha256").asset, Malformed}

VerifyHash ==
    /\ Idle
    /\ \E file \in {None} \cup {Some(f) : f \in AssetFiles(bh)}, alg \in Hints :
          call' = VerifyCall("verify_hash", file, alg, verify_hash(bh, file, alg))
    /\ UNCHANGED <<bh, srcDir, outDir, wire>>

VerifyInMemoryHash ==
    /\ Idle
    /\ \E data \in AssetFiles(bh), alg \in Hints :
          call' = VerifyCall("verify_in_memory_hash", data, alg,
                             verify_in_memory_hash(bh, data, alg))
    /\ UNCHANGED <<bh, srcDir, outDir, wire>>

VerifyStreamSegment ==
    /\ Idle
    /\ \E init \in {InitSegment, TamperedInit, Malformed},
          fragment \in {None} \cup {Some(f) : f \in Fragments(bh)},
          alg \in Hints :
          \E r \in {verify_stream_segment(bh, init, fragment, alg)} :
             call' = [op |-> "verify_stream_segment", init |-> init,
                      fragment |-> fragment, alg |-> alg,
                      result |-> unwrap(r.ret), log |-> r.log]
    /\ UNCHANGED <<bh, srcDir, outDir, wire>>

InitVerify ==
    /\ \E base \in VerifyBases :
          \E m \in MerkleValues(base) : bh = [base EXCEPT !.merkle = m]
    /\ srcDir = <<>>
    /\ outDir = <<>>
    /\ call = NoCall
    /\ wire = None

NextVerify ==
    \/ SetHash \/ ClearHash \/ UpdateMpdHash
    \/ VerifyStreamHash \/ VerifyHash \/ VerifyInMemoryHash \/ VerifyStreamSegment

SpecVerify == InitVerify /\ [][NextVerify]_vars


---------------------------------------------------------------------------
(* Properties of the verifiers *)

IsSegment == call.op = "verify_stream_segment"

\* the entries of the log of the call about what (file, init, fragment, chunk)
LogAbout(what) == {k \in 1..Len(call.log) : call.log[k].what = what}

\* the flat exclusions of a stream under the assertion
ExclusionsOf(stream) ==
    bmff_to_jumbf_exclusions(stream, bh.exclusions, bh.bmff_version > 1)

\* C5: when url is present every verification entry point
\* (verify_stream_hash, verify_hash, verify_in_memory_hash and
\* verify_stream_segment) returns the remote-not-supported error, never Ok,
\* and compares no digest.
C5_RemoteRefused ==
    (call.op \in VerifyOps /\ is_remote_hash(bh)) =>
        /\ call.result = Err("BadParam", "asset hash is remote, not yet supported")
        /\ call.log = <<>>

\* a remote assertion whose init segment verify_stream_segment passes
C5_RemoteAccepted ==
    /\ IsSegment
    /\ is_remote_hash(bh)
    /\ call.result.ok
    /\ \E k \in LogAbout("init") : call.log[k].ev = "verify"

\* the three single-file entry points do refuse, once the file is open
C5_SingleFileRefused ==
    (/\ call.op \in VerifyOps \ {"verify_stream_segment"}
     /\ is_remote_hash(bh)
     /\ call.op = "verify_hash" => is_some(call.reader)) =>
        /\ call.result = Err("BadParam", "asset hash is remote, not yet supported")
        /\ call.log = <<>>

\* the precedence C6 states, spelled out on the values of the call
C6_Expected ==
    IF bh.alg # None THEN bh.alg[1]
    ELSE IF call.alg # None THEN call.alg[1]
    ELSE "sha256"

\* C6: in verify_stream_hash and verify_stream_segment the file-level
\* digest is computed with the alg of the assertion when present, otherwise
\* with the caller's hint when present, otherwise with sha256: every such
\* digest the call computes is of that algorithm, and the call passes the
\* comparison exactly when the stored digest is the one of that algorithm.
C6_AlgorithmPrecedence ==
    /\ call.op = "verify_stream_hash" =>
          /\ \A k \in LogAbout("file") :
                call.log[k].ev = "verify" => call.log[k].alg = C6_Expected
          /\ (~is_remote_hash(bh) /\ call.reader.wf /\ is_some(bh.hash)
                 /\ ~is_some(bh.merkle)) =>
                (call.result.ok <=>
                    bh.hash = hash_stream_by_alg(C6_Expected, call.reader,
                                                 ExclusionsOf(call.reader)))
    /\ IsSegment =>
          /\ \A k \in LogAbout("init") :
                call.log[k].ev = "verify" => call.log[k].alg = C6_Expected
          /\ (~is_some(bh.hash) /\ is_some(bh.merkle) /\ call.init.wf
                 /\ call.fragment = None /\ Len(unwrap(bh.merkle)) = 1) =>
                (call.result.ok <=>
                    /\ is_some(unwrap(bh.merkle)[1].init_hash)
                    /\ unwrap(bh.merkle)[1].init_hash =
                          hash_stream_by_alg(C6_Expected, call.init,
                                             ExclusionsOf(call.init)))

\* C6 witness: the assertion says sha256, the caller sha384, and the file
\* passes on its sha256 digest.
C6_Witness ==
    /\ call.op = "verify_stream_hash"
    /\ bh.alg = Some("sha256") /\ call.alg = Some("sha384")
    /\ is_some(bh.hash) /\ ~is_some(bh.merkle)
    /\ call.result.ok

\* the hint is what counts when the assertion has no alg: an init segment
\* passes on its sha384 digest
C6_WitnessHint ==
    /\ IsSegment
    /\ bh.alg = None /\ call.alg = Some("sha384")
    /\ call.fragment = None
    /\ call.result.ok
    /\ \E k \in LogAbout("init") : call.log[k].alg = "sha384"

\* C7: verify_stream_segment returns HashMismatch for every assertion whose
\* hash is present, whatever the merkle list, the init stream and the
\* fragment are, and before any stream is read.
C7_HashMustBeAbsent ==
    (IsSegment /\ is_some(bh.hash)) =>
        /\ ~call.result.ok
        /\ call.result.err = "HashMismatch"
        /\ call.log = <<>>

\* C7 witness: a call that is refused for the hash alone, the same init
\* segment and fragment pass once the hash is cleared.
C7_Witness ==
    /\ IsSegment
    /\ is_some(bh.hash) /\ is_some(bh.merkle) /\ is_some(call.fragment)
    /\ call.result.err = "HashMismatch"
    /\ verify_stream_segment([bh EXCEPT !.hash = None], call.init, call.fragment,
                             call.alg).ret = Some(Ok)

\* C8: for a fragmented single-file Merkle asset (a top-level moof in the
\* stream, merkle in the assertion) verify_stream_hash never returns Ok
\* when the assertion also carries a file-level hash.
C8_HashAbsentWhenFragmented ==
    (/\ call.op = "verify_stream_hash"
     /\ Positions(call.reader.boxes, is_moof) # {}
     /\ is_some(bh.merkle)
     /\ is_some(bh.hash)) =>
        ~call.result.ok

\* a fragmented single-file asset that passes with hash and merkle both
\* present: the file digest, the init hash and both fragments are checked
C8_AcceptedWithHash ==
    /\ call.op = "verify_stream_hash"
    /\ Cardinality(Positions(call.reader.boxes, is_moof)) = 2
    /\ is_some(bh.merkle) /\ is_some(bh.hash)
    /\ call.result.ok
    /\ \E k \in LogAbout("file") : call.log[k].ev = "verify"
    /\ Cardinality(LogAbout("chunk")) = 2

\* what verify_stream_hash does in that shape: the hash is one more check,
\* Ok is returned exactly when it and the Merkle checks pass
C8_HashIsOneMoreCheck ==
    (/\ call.op = "verify_stream_hash"
     /\ ~is_remote_hash(bh)
     /\ Positions(call.reader.boxes, is_moof) # {}
     /\ is_some(bh.merkle)
     /\ is_some(bh.hash)) =>
        (call.result.ok <=>
            /\ verify_stream_by_alg(C6_Expected, unwrap(bh.hash), call.reader,
                                    ExclusionsOf(call.reader))
            /\ verify_stream_hash([bh EXCEPT !.hash = None], call.reader,
                                  call.alg).ret = Some(Ok))

\* the init_hash of a MerkleMap is the digest of the init stream of the
\* call minus exclusions, under the algorithm of C6
C9_InitHashGood(mm) ==
    /\ call.init.wf
    /\ is_some(mm.init_hash)
    /\ mm.init_hash = hash_stream_by_alg(C6_Expected, call.init, ExclusionsOf(call.init))

\* C9 as claimed: verify_stream_segment(init, None, hint) returns Ok if and
\* only if hash is absent, merkle is present and every MerkleMap in it has
\* an init_hash equal to the digest of the init stream minus exclusions; no
\* fragment data is read.
C9_InitOnly ==
    (IsSegment /\ call.fragment = None) =>
        /\ call.result.ok <=>
              /\ ~is_some(bh.hash)
              /\ is_some(bh.merkle)
              /\ \A k \in 1..Len(unwrap(bh.merkle)) : C9_InitHashGood(unwrap(bh.merkle)[k])
        /\ LogAbout("fragment") = {}

\* C9 amended: verify_stream_segment(init, None, hint) returns Ok if and
\* only if hash is absent, merkle is present, the init stream parses, and
\* every MerkleMap has an init_hash equal to the digest of the init stream
\* minus exclusions under the assertion's alg, else the hint, else sha256
\* (the alg of the MerkleMap plays no part); no fragment data is read.
C9_InitOnlyParsed ==
    (IsSegment /\ call.fragment = None) =>
        /\ call.result.ok <=>
              /\ ~is_some(bh.hash)
              /\ is_some(bh.merkle)
              /\ call.init.wf
              /\ \A k \in 1..Len(unwrap(bh.merkle)) : C9_InitHashGood(unwrap(bh.merkle)[k])
        /\ LogAbout("fragment") = {}

\* C9 witness: an init segment passes for an assertion of two MerkleMaps.
C9_Witness ==
    /\ IsSegment /\ call.fragment = None
    /\ call.result.ok
    /\ Len(unwrap(bh.merkle)) = 2
    /\ Cardinality({k \in LogAbout("init") : call.log[k].ev = "verify"}) = 2

\* the cases of C10
C10_NoMerkle == ~is_some(bh.merkle)
C10_NoInitHash ==
    /\ is_some(bh.merkle)
    /\ \E k \in 1..Len(unwrap(bh.merkle)) : ~is_some(unwrap(bh.merkle)[k].init_hash)
C10_NoBox ==
    /\ is_some(call.fragment)
    /\ unwrap(call.fragment).wf
    /\ read_bmff_c2pa_boxes(unwrap(call.fragment)).bmff_merkle = <<>>
C10_NoMatch ==
    /\ is_some(bh.merkle)
    /\ is_some(call.fragment)
    /\ \E j \in 1..Len(read_bmff_c2pa_boxes(unwrap(call.fragment)).bmff_merkle) :
          LET b == read_bmff_c2pa_boxes(unwrap(call.fragment)).bmff_merkle[j] IN
          \A k \in 1..Len(unwrap(bh.merkle)) :
             \/ unwrap(bh.merkle)[k].unique_id # b.unique_id
             \/ unwrap(bh.merkle)[k].local_id # b.local_id
C10_Case == C10_NoMerkle \/ C10_NoInitHash \/ C10_NoBox \/ C10_NoMatch

\* C10 as claimed: in verify_stream_segment each of these yields
\* HashMismatch and never Ok: the assertion has no merkle; some MerkleMap
\* has no init_hash; the fragment contains no BmffMerkleMap box; a
\* BmffMerkleMap of the fragment has no MerkleMap with the same
\* (unique_id, local_id).
C10_YieldsHashMismatch ==
    (IsSegment /\ C10_Case) =>
        /\ ~call.result.ok
        /\ call.result.err = "HashMismatch"

\* C10 amended: in each of these cases verify_stream_segment never returns
\* Ok.  The error is HashMismatch unless an earlier step fails first: an
\* init stream that does not parse gives InvalidAsset, and a BmffMerkleMap
\* met before the unmatched one whose MerkleMap names an unsupported
\* algorithm gives UnsupportedType.
C10_NeverOk ==
    (IsSegment /\ C10_Case) =>
        /\ ~call.result.ok
        /\ call.result.err \in {"HashMismatch", "InvalidAsset", "UnsupportedType"}
        /\ call.result.err = "InvalidAsset" => ~call.init.wf
        /\ call.result.err = "UnsupportedType" =>
              \E k \in 1..Len(unwrap(bh.merkle)) :
                 /\ is_some(unwrap(bh.merkle)[k].alg)
                 /\ unwrap(unwrap(bh.merkle)[k].alg) \notin SupportedAlgs
        /\ (C10_NoMerkle \/ is_some(bh.hash)) => call.result.err = "HashMismatch"

\* C10 witness: the init segment passes and the fragment carries a
\* BmffMerkleMap that no MerkleMap of the assertion matches.
C10_Witness ==
    /\ IsSegment
    /\ C10_NoMatch /\ ~C10_NoInitHash
    /\ call.init.wf
    /\ \E k \in LogAbout("init") : call.log[k].ev = "verify"
    /\ call.result = HashMismatch("Fragment had no MerkleMap")

\* the fragment without a box, behind an init segment that passes
C10_WitnessNoBox ==
    /\ IsSegment
    /\ C10_NoBox /\ is_some(bh.merkle) /\ ~C10_NoInitHash
    /\ \E k \in LogAbout("init") : call.log[k].ev = "verify"
    /\ call.result = HashMismatch("Fragment had no MerkleMap")


\* the MerkleMaps of the assertion whose init_hash is absent, and those whose
\* init_hash is not the digest of the init stream of the call
C11_Missing ==
    {k \in 1..Len(unwrap(bh.merkle)) : ~is_some(unwrap(bh.merkle)[k].init_hash)}
C11_Differs ==
    {k \in 1..Len(unwrap(bh.merkle)) :
        /\ is_some(unwrap(bh.merkle)[k].init_hash)
        /\ unwrap(bh.merkle)[k].init_hash #
              hash_stream_by_alg(C6_Expected, call.init, ExclusionsOf(call.init))}

\* C11 as stated: with hash absent and an init stream that parses, a stored
\* init_hash that differs from the digest of the init stream yields
\* HashMismatch("BMFF inithash mismatch"), whatever the fragment is.
C11_MismatchMessage ==
    (IsSegment /\ ~is_some(bh.hash) /\ is_some(bh.merkle) /\ call.init.wf
       /\ C11_Differs # {}) =>
        call.result = HashMismatch("BMFF inithash mismatch")

\* C11: in verify_stream_segment every MerkleMap's init_hash is checked
\* against the init stream before anything of the fragment is read: the
\* fragment is read only after as many init comparisons as there are
\* MerkleMaps, and when some MerkleMap does not pass the call fails with
\* HashMismatch and has read nothing of the fragment, be the fragment valid,
\* invalid or absent; the message is "BMFF inithash mismatch" when the first
\* MerkleMap that does not pass has an init_hash that differs from the digest
\* of the init stream, and "fragmented MP4 must have initHash" when it has
\* none.
C11_InitBeforeFragment ==
    (IsSegment /\ ~is_some(bh.hash) /\ is_some(bh.merkle) /\ call.init.wf) =>
        LET bad == C11_Missing \cup C11_Differs
            checks == {k \in LogAbout("init") : call.log[k].ev = "verify"}
        IN /\ bad # {} =>
                /\ LogAbout("fragment") = {}
                /\ ~call.result.ok
                /\ call.result.err = "HashMismatch"
                /\ MinOf(bad) \in C11_Differs =>
                      call.result = HashMismatch("BMFF inithash mismatch")
                /\ MinOf(bad) \in C11_Missing =>
                      call.result = HashMismatch("fragmented MP4 must have initHash")
           /\ LogAbout("fragment") # {} =>
                /\ bad = {}
                /\ Cardinality(checks) = Len(unwrap(bh.merkle))
                /\ \A i \in checks, j \in LogAbout("fragment") : i < j

\* C11 witness: a fragment that passes behind its own init segment is not
\* even read behind an init segment with a byte changed.
C11_Witness ==
    /\ IsSegment
    /\ is_some(call.fragment)
    /\ call.init = TamperedInit
    /\ call.result = HashMismatch("BMFF inithash mismatch")
    /\ LogAbout("fragment") = {}
    /\ verify_stream_segment(bh, InitSegment, call.fragment, call.alg).ret = Some(Ok)


\* the init segment of the call passes: hash is absent, the init stream
\* parses and every MerkleMap has an init_hash that is its digest
C12_ValidInit ==
    /\ IsSegment
    /\ ~is_some(bh.hash)
    /\ is_some(bh.merkle)
    /\ call.init.wf
    /\ C11_Missing \cup C11_Differs = {}

\* the BmffMerkleMap boxes of the fragment of the call
C12_Boxes == read_bmff_c2pa_boxes(unwrap(call.fragment)).bmff_merkle

\* what the replay of box b of the fragment comes to: "nomatch" when no
\* MerkleMap has its ids, "nohash" when the digest cannot be computed,
\* "pass" when the digest of the fragment minus exclusions, replayed with
\* the location and the proof of the box, is the entry of the stored row of
\* the first MerkleMap with its ids, "fail" otherwise
C12_Replay(b) ==
    LET found == {k \in 1..Len(unwrap(bh.merkle)) :
                     /\ unwrap(bh.merkle)[k].unique_id = b.unique_id
                     /\ unwrap(bh.merkle)[k].local_id = b.local_id}
        mm == unwrap(bh.merkle)[MinOf(found)]
        alg == IF is_some(mm.alg) THEN unwrap(mm.alg) ELSE C6_Expected
        hash == hash_stream_by_alg(alg, unwrap(call.fragment),
                                   ExclusionsOf(unwrap(call.fragment)))
    IN IF found = {} THEN "nomatch"
       ELSE IF ~is_some(hash) THEN "nohash"
       ELSE IF check_merkle_tree(mm, alg, unwrap(hash), b.location, b.hashes)
       THEN "pass"
       ELSE "fail"

\* C12 as stated: with a valid init segment, whenever the replay of some
\* BmffMerkleMap box of the fragment fails the result is
\* HashMismatch("Fragment not valid").
C12_AnyFailureNotValid ==
    (C12_ValidInit /\ is_some(call.fragment) /\ unwrap(call.fragment).wf
       /\ \E j \in 1..Len(C12_Boxes) : C12_Replay(C12_Boxes[j]) = "fail") =>
        call.result = HashMismatch("Fragment not valid")

\* C12: with a valid init segment, verify_stream_segment(init, Some(fragment))
\* returns Ok only if the fragment has a BmffMerkleMap box and the replay of
\* every such box passes; if the replay of a box fails the call fails, and
\* with HashMismatch("Fragment not valid") when every box before it passes
\* (a box before it without a MerkleMap gives "Fragment had no MerkleMap").
C12_OkOnlyIfEveryReplay ==
    (C12_ValidInit /\ is_some(call.fragment)) =>
        /\ call.result.ok =>
              /\ unwrap(call.fragment).wf
              /\ C12_Boxes # <<>>
              /\ \A j \in 1..Len(C12_Boxes) : C12_Replay(C12_Boxes[j]) = "pass"
        /\ unwrap(call.fragment).wf =>
              \A j \in 1..Len(C12_Boxes) :
                 C12_Replay(C12_Boxes[j]) = "fail" =>
                    /\ ~call.result.ok
                    /\ (\A i \in 1..(j - 1) : C12_Replay(C12_Boxes[i]) = "pass") =>
                          call.result = HashMismatch("Fragment not valid")
                    /\ (\E i \in 1..(j - 1) : C12_Replay(C12_Boxes[i]) = "nomatch") =>
                          call.result.err = "HashMismatch"

\* C12 witness: a fragment with a changed byte behind its valid init segment
\* is refused as not valid.
C12_Witness ==
    /\ C12_ValidInit
    /\ is_some(call.fragment)
    /\ Len(C12_Boxes) = 1
    /\ C12_Replay(C12_Boxes[1]) = "fail"
    /\ call.result = HashMismatch("Fragment not valid")


\* verify_stream_hash is called on a stream that parses, with an assertion
\* that is not remote and has at least one MerkleMap
C13_MerkleCall ==
    /\ call.op = "verify_stream_hash"
    /\ ~is_remote_hash(bh)
    /\ call.reader.wf
    /\ is_some(bh.merkle)
    /\ unwrap(bh.merkle) # <<>>

\* the shape of the asset of the call
C13_Fragmented == Positions(call.reader.boxes, is_moof) # {}
C13_Timed == ~C13_Fragmented /\ Positions(call.reader.boxes, is_moov) # {}

\* the number of BmffMerkleMap boxes the MerkleMaps mm_vec[k..] count
RECURSIVE C13_SumCounts(_, _)
C13_SumCounts(mm_vec, k) ==
    IF k > Len(mm_vec) THEN 0 ELSE mm_vec[k].count + C13_SumCounts(mm_vec, k + 1)

\* the number of BmffMerkleMap boxes of the asset is not what the counts of
\* the MerkleMaps require: in a fragmented file every MerkleMap counts all
\* the boxes, in timed media the boxes are the runs of the MerkleMaps one
\* after another
C13_Miscounted ==
    LET n == Len(read_bmff_c2pa_boxes(call.reader).bmff_merkle) IN
    \/ C13_Fragmented /\ \E k \in 1..Len(unwrap(bh.merkle)) : unwrap(bh.merkle)[k].count # n
    \/ C13_Timed /\ C13_SumCounts(unwrap(bh.merkle), 1) # n

\* C13: in verify_stream_hash, for the fragmented single-file shape and for
\* the timed-media shape, whenever the number of BmffMerkleMap boxes of the
\* asset differs from what the counts of the MerkleMaps require the call
\* returns HashMismatch: it neither returns Ok nor ends abnormally.
C13_CountMismatch ==
    (C13_MerkleCall /\ C13_Miscounted) =>
        /\ ~call.result.ok
        /\ call.result.err = "HashMismatch"

\* C13, the fragmented shape: there the count test of the code answers.
C13_FragmentedCountMismatch ==
    (C13_MerkleCall /\ C13_Miscounted /\ C13_Fragmented) =>
        /\ ~call.result.ok
        /\ call.result.err = "HashMismatch"

\* C13 failing case: a timed-media asset with fewer BmffMerkleMap boxes than
\* its MerkleMap counts ends the call abnormally.
C13_Panics ==
    /\ C13_MerkleCall
    /\ C13_Timed
    /\ C13_Miscounted
    /\ ~is_some(bh.hash)
    /\ call.result.err = "panic"


\* verify_stream_hash has come to the Merkle part of an asset without a
\* top-level moof: the assertion is not remote, the stream parses, the
\* file-level hash, when present, matches, and merkle is present
C14_Unfragmented ==
    /\ call.op = "verify_stream_hash"
    /\ ~is_remote_hash(bh)
    /\ call.reader.wf
    /\ is_some(bh.hash) =>
          Some(unwrap(bh.hash)) =
             hash_stream_by_alg(C6_Expected, call.reader, ExclusionsOf(call.reader))
    /\ is_some(bh.merkle)
    /\ Positions(call.reader.boxes, is_moof) = {}

\* the MerkleMaps of the assertion that carry an init_hash
C14_WithInitHash ==
    {k \in 1..Len(unwrap(bh.merkle)) : is_some(unwrap(bh.merkle)[k].init_hash)}

\* C14: in verify_stream_hash, when the assertion has merkle and the asset
\* has no top-level moof, a MerkleMap that carries an init_hash makes the
\* call return HashMismatch (the file-level hash, when present, having
\* matched): no init digest is computed, and the message is
\* "BMFF inithash must not be present for non-fragmented media" unless a
\* MerkleMap up to that one has no algorithm to resolve.
C14_InitHashRefused ==
    (C14_Unfragmented /\ C14_WithInitHash # {}) =>
        /\ ~call.result.ok
        /\ call.result.err = "HashMismatch"
        /\ {k \in LogAbout("init") : call.log[k].ev = "verify"} = {}
        /\ (\A k \in 1..MinOf(C14_WithInitHash) :
               is_some(MmAlg(bh, unwrap(bh.merkle)[k]))) =>
              call.result = HashMismatch(
                 "BMFF inithash must not be present for non-fragmented media")

\* C14 witness: a timed-media file whose file-level hash matches is refused
\* for the init_hash of its MerkleMap.
C14_Witness ==
    /\ C14_Unfragmented
    /\ is_some(bh.hash)
    /\ Positions(call.reader.boxes, is_moov) # {}
    /\ C14_WithInitHash # {}
    /\ call.result = HashMismatch(
          "BMFF inithash must not be present for non-fragmented media")


\* verify_stream_hash has come to the Merkle part of an untimed asset: one
\* with neither a top-level moof nor a moov
C15_Untimed ==
    /\ C14_Unfragmented
    /\ Positions(call.reader.boxes, is_moov) = {}

\* C15: in verify_stream_hash a Merkle-bearing assertion checked against an
\* asset that has neither a top-level moof nor a moov (the untimed, iloc
\* shape) always fails, and with the NotImplemented error kind.
C15_IlocNotImplemented ==
    C15_Untimed =>
        /\ ~call.result.ok
        /\ call.result.err = "NotImplemented"

\* C15, what the code does: the untimed shape always fails, with HashMismatch.
C15_IlocFails ==
    C15_Untimed =>
        /\ ~call.result.ok
        /\ call.result.err = "HashMismatch"

\* C15 failing case: a still image whose MerkleMap has no init_hash is
\* refused with HashMismatch("Merkle iloc not yet supported").
C15_IlocHashMismatch ==
    /\ C15_Untimed
    /\ C14_WithInitHash = {}
    /\ call.result = HashMismatch("Merkle iloc not yet supported")


\* the digests the call computed: comparisons of a stored digest and
\* digests of fragments or chunks replayed through a proof
C16_Digests == {k \in 1..Len(call.log) : call.log[k].ev \in {"verify", "hash"}}

\* C16: verify_stream_hash never returns Ok for an assertion in which both
\* hash and merkle are absent: Ok implies that at least one of them is
\* present.
C16_HashOrMerkle ==
    (call.op = "verify_stream_hash" /\ ~is_some(bh.hash) /\ ~is_some(bh.merkle)) =>
        ~call.result.ok

\* C16 failing case: an assertion with neither hash nor merkle is accepted
\* for a file of which no digest was computed.
C16_AcceptedUnchecked ==
    /\ call.op = "verify_stream_hash"
    /\ ~is_some(bh.hash)
    /\ ~is_some(bh.merkle)
    /\ call.result.ok
    /\ C16_Digests = {}


---------------------------------------------------------------------------
(* The C2PA Merkle box on disk: byte lengths *)

\* #[derive(Serialize)] struct BmffMerkleMap: hashes is written as null
\* when None
ser_BmffMerkleMap(x) ==
    CborMap([uniqueId |-> CborUint(x.unique_id),
             localId |-> CborUint(x.local_id),
             location |-> CborUint(x.location),
             hashes |-> ser_option(x.hashes, ser_VecByteBuf)])

\* the number of bytes of a digest: the length of its algorithm (the zero
\* placeholder is as long as it is written)
digest_bytes(h) ==
    IF h = <<>> THEN 0
    ELSE IF h[1] = 0 THEN Len(h)
    ELSE DigestLen(CHOOSE alg \in SupportedAlgs : AlgCode(alg) = h[1])

\* the bytes of the head of a CBOR item with argument n
head_len(n) ==
    IF n < 24 THEN 1 ELSE IF n < 256 THEN 2 ELSE IF n < 65536 THEN 3 ELSE 5

\* the number of characters of the field names of a BmffMerkleMap
key_len(key) ==
    CASE key = "uniqueId" -> 8
      [] key = "localId" -> 7
      [] key = "location" -> 8
      [] key = "hashes" -> 6

\* serde_cbor::to_vec(..).len() of the CBOR of a BmffMerkleMap
RECURSIVE cbor_len(_)
RECURSIVE cbor_items_len(_)
RECURSIVE cbor_entries_len(_, _)
cbor_len(c) ==
    CASE c.t = "null" -> 1
      [] c.t = "uint" -> head_len(c.v)
      [] c.t = "bstr" -> head_len(digest_bytes(c.v)) + digest_bytes(c.v)
      [] c.t = "array" -> head_len(Len(c.v)) + cbor_items_len(c.v)
      [] c.t = "map" -> head_len(Cardinality(DOMAIN c.v))
                           + cbor_entries_len(c.v, DOMAIN c.v)

cbor_items_len(items) ==
    IF items = <<>> THEN 0 ELSE cbor_len(items[1]) + cbor_items_len(Tail(items))

cbor_entries_len(m, keys) ==
    IF keys = {}
    THEN 0
    ELSE LET key == CHOOSE k \in keys : TRUE IN
         head_len(key_len(key)) + key_len(key) + cbor_len(m[key])
            + cbor_entries_len(m, keys \ {key})

\* the bytes write_c2pa_box puts ahead of the CBOR: size, type, usertype,
\* version and flags, and the purpose string of a Merkle box
C2PA_BOX_HEAD == 4 + 4 + 16 + 4 + 7

\* the length of a box in a file: uuid_box_data.len() for a C2PA Merkle
\* box; the other boxes have a header and their data
box_len(b) ==
    IF is_some(b.mm)
    THEN C2PA_BOX_HEAD + cbor_len(ser_BmffMerkleMap(unwrap(b.mm)))
    ELSE 8 + b.data

\* stream_len: the length of a file
RECURSIVE boxes_len(_)
boxes_len(boxes) ==
    IF boxes = <<>> THEN 0 ELSE box_len(boxes[1]) + boxes_len(Tail(boxes))

---------------------------------------------------------------------------
(* Claims on add_merkle_for_mpd *)

\* add_merkle_for_mpd has ended well on a directory of N >= 1 segments
C17_Prepared ==
    /\ call.op = "add_merkle_for_mpd"
    /\ call.result.ok
    /\ Len(srcDir) >= 1

\* the position of the C2PA Merkle box of a prepared file
C17_BoxAt(file) == read_bmff_c2pa_boxes(file).bmff_merkle_box_infos[1]

\* C17: back-patch size stability.  For every segment count N >= 1 and
\* every location the C2PA UUID box written in the final pass has exactly
\* the byte length of the placeholder box written for that segment: after
\* the call the length of each output fragment is the length of the source
\* fragment plus the size of the placeholder box, and outside the box no
\* byte is changed by the final pass.
C17_SizeStable ==
    C17_Prepared =>
        \A f \in 1..Len(outDir) :
            LET at == C17_BoxAt(call.placed[f])
                placeholder == call.placed[f].boxes[at]
                final == outDir[f].boxes[at]
            IN /\ C17_BoxAt(outDir[f]) = at
               /\ box_len(final) = box_len(placeholder)
               /\ boxes_len(outDir[f].boxes)
                     = boxes_len(srcDir[f].boxes) + box_len(placeholder)
               /\ Len(outDir[f].boxes) = Len(call.placed[f].boxes)
               /\ \A p \in 1..Len(outDir[f].boxes) :
                     p # at => outDir[f].boxes[p] = call.placed[f].boxes[p]

\* C17 witness: a directory of more than 2^max_proofs segments, where the
\* final pass has put a proof of max_proofs digests over a placeholder of
\* zero digests and the lone trailing segment keeps a box without a proof.
C17_Witness ==
    /\ C17_Prepared
    /\ Len(outDir) > 2 ^ max_proofs
    /\ \E f \in 1..Len(outDir) :
          LET at == C17_BoxAt(outDir[f])
              final == unwrap(outDir[f].boxes[at].mm)
              placeholder == unwrap(call.placed[f].boxes[at].mm)
          IN /\ is_some(final.hashes)
             /\ Len(unwrap(final.hashes)) = max_proofs
             /\ final.hashes # placeholder.hashes
             /\ unwrap(placeholder.hashes)[1] = ZeroHash(call.alg)
    /\ \E f \in 1..Len(outDir) :
          ~is_some(unwrap(outDir[f].boxes[C17_BoxAt(outDir[f])].mm).hashes)

\* the leaves, the tree and the files of a final pass made once more over
\* the output files
C18_Leaves == mpd_leaves(bh, call.alg, outDir, call.ord)
C18_Tree == from_leaves(C18_Leaves, call.alg)
C18_Again == mpd_final_pass(outDir, call.ord, C18_Tree)

\* C18: idempotent final pass.  After add_merkle_for_mpd has completed, the
\* leaf hashes recomputed from the output fragments are the leaves the call
\* computed (the back-patched box does not feed back into them), the tree is
\* the same, its stored row is the one in the assertion, and the final pass
\* made once more ends well and leaves every output file as it is.
C18_Idempotent ==
    C17_Prepared =>
        /\ C18_Leaves = mpd_leaves(bh, call.alg, call.placed, call.ord)
        /\ C18_Tree = from_leaves(mpd_leaves(bh, call.alg, call.placed, call.ord),
                                  call.alg)
        /\ unwrap(bh.merkle)[1].hashes
              = C18_Tree.layers[Min(max_proofs, Len(C18_Tree.layers) - 1) + 1]
        /\ C18_Again.stop = Len(outDir)
        /\ C18_Again.out = outDir

\* C18 witness: a prepared directory whose final pass did change the boxes
\* it was given.
C18_Witness ==
    /\ C17_Prepared
    /\ Len(outDir) >= 3
    /\ \A f \in 1..Len(outDir) : outDir[f] # call.placed[f]
    /\ C18_Again.out = outDir

\* C19: after a successful add_merkle_for_mpd(alg, .., local_id, unique_id)
\* over N >= 1 segments the merkle of the assertion is exactly one MerkleMap
\* with count = N, local_id as given, unique_id as given or local_id when
\* omitted, alg = Some(alg), hashes = layers[min(4, root_layer)] of the tree
\* of the output files (of length ceil(N / 2^min(4, root_layer))), and
\* init_hash a string of zeros of the digest length of the algorithm
\* (32 / 48 / 64 bytes).
C19_MerkleMap ==
    C17_Prepared =>
        LET N == Len(srcDir)
            root_layer == Len(C18_Tree.layers) - 1
            row == Min(4, root_layer)
            mm == unwrap(bh.merkle)[1]
        IN /\ is_some(bh.merkle)
           /\ Len(unwrap(bh.merkle)) = 1
           /\ mm.count = N
           /\ mm.local_id = call.local_id
           /\ mm.unique_id = (IF is_some(call.unique_id)
                              THEN unwrap(call.unique_id) ELSE call.local_id)
           /\ mm.alg = Some(call.alg)
           /\ mm.hashes = C18_Tree.layers[row + 1]
           /\ Len(mm.hashes) = (N + 2 ^ row - 1) \div (2 ^ row)
           /\ is_some(mm.init_hash)
           /\ Len(unwrap(mm.init_hash))
                 = (CASE call.alg = "sha256" -> 32
                      [] call.alg = "sha384" -> 48
                      [] call.alg = "sha512" -> 64)
           /\ \A k \in 1..Len(unwrap(mm.init_hash)) : unwrap(mm.init_hash)[k] = 0

\* C19 witness: a directory whose tree is higher than max_proofs, prepared
\* with sha512 and no unique_id: the stored row is below the root.
C19_Witness ==
    /\ C17_Prepared
    /\ call.alg = "sha512"
    /\ ~is_some(call.unique_id)
    /\ Len(C18_Tree.layers) - 1 > max_proofs
    /\ Len(unwrap(bh.merkle)[1].hashes) = 2
    /\ unwrap(bh.merkle)[1].unique_id = call.local_id


---------------------------------------------------------------------------
(* Claims on update_mpd_hash *)

\* the algorithm update_mpd_hash hashes the init file with: the alg of the
\* first MerkleMap, else the alg of the assertion, else sha256
C20_Alg(self) ==
    IF is_some(unwrap(self.merkle)[1].alg) THEN unwrap(unwrap(self.merkle)[1].alg)
    ELSE IF is_some(self.alg) THEN unwrap(self.alg)
    ELSE "sha256"

\* a step of update_mpd_hash from an assertion that has merkle, absent, or
\* empty
C20_Step == call'.op = "update_mpd_hash"

\* C20: update_mpd_hash changes only merkle[0].init_hash.  On success it
\* puts the digest of the init file minus exclusions in the place of the
\* init_hash (the zero placeholder) of the first MerkleMap and leaves
\* exclusions, alg, hash, name, every other MerkleMap, and the count, ids,
\* alg and hashes of the first MerkleMap as they were; with merkle absent it
\* returns BadParam, with merkle empty it returns an error, and a call that
\* fails leaves the assertion as it was.
C20_OnlyInitHash ==
    [][C20_Step =>
         /\ [bh' EXCEPT !.merkle = bh.merkle] = bh
         /\ ~is_some(bh.merkle) =>
               /\ call'.result = Err("BadParam", "expected MPD Merkle object")
               /\ bh' = bh
         /\ (is_some(bh.merkle) /\ unwrap(bh.merkle) = <<>>) =>
               /\ ~call'.result.ok
               /\ bh' = bh
         /\ ~call'.result.ok => bh' = bh
         /\ call'.result.ok =>
               /\ is_some(bh.merkle) /\ unwrap(bh.merkle) # <<>>
               /\ unwrap(bh'.merkle) =
                     [unwrap(bh.merkle) EXCEPT ![1].init_hash =
                         hash_stream_by_alg(C20_Alg(bh), call'.init,
                            bmff_to_jumbf_exclusions(call'.init, bh.exclusions,
                                                     bh.bmff_version > 1))]
               /\ is_some(unwrap(bh'.merkle)[1].init_hash)
    ]_vars

\* C20 witness: of two MerkleMaps the first has the digest of the init
\* segment where it had the zero placeholder, the second still has no
\* init_hash.
C20_Witness ==
    /\ call.op = "update_mpd_hash"
    /\ call.result.ok
    /\ Len(unwrap(bh.merkle)) = 2
    /\ unwrap(bh.merkle)[1].init_hash = InitDigest(bh, "sha256")
    /\ unwrap(bh.merkle)[1].init_hash # Some(ZeroHash("sha256"))
    /\ ~is_some(unwrap(bh.merkle)[2].init_hash)


---------------------------------------------------------------------------
(* Whole-file hashing: gen_hash, regen_hash and the verifiers *)

\* the files of the asset directory, by path; a path without a file cannot
\* be opened
GenPaths ==
    {"frag.mp4", "swapped.mp4", "repeated.mp4", "still.heic", "broken.mp4",
     "missing.mp4", "timed.mp4", "cut.mp4"}

\* a timed-media asset whose track has two chunks and whose only
\* BmffMerkleMap box is that of the first, with the MerkleMap of a tree of
\* that one leaf
CutTimed(alg) ==
    LET tracks == TimedFixture(alg).asset.tracks IN
    [asset |-> TimedStream(<<Box("ftyp", 1), ManifestBox(5), Box("moov", 2),
                             MerkleBox(BmffMerkleMap(1, 1, 0, None)), Box("mdat", 4)>>,
                           tracks),
     merkle |-> Some(<<MerkleMap(1, 1, 1, Some(alg), None,
                                 <<ChunkDigest(alg, tracks[1][1])>>)>>)]

\* the fragmented asset with its two fragments, each behind its C2PA Merkle
\* box, in the other order, and with the first fragment in place of the
\* second
SwappedFragments(stream) ==
    Stream(SubSeq(stream.boxes, 1, 4) \o SubSeq(stream.boxes, 8, 10)
              \o SubSeq(stream.boxes, 5, 7))
RepeatedFragment(stream) ==
    Stream(SubSeq(stream.boxes, 1, 4) \o SubSeq(stream.boxes, 5, 7)
              \o SubSeq(stream.boxes, 5, 7))

\* the fragmented asset and the merkle of an assertion of version 1, which
\* hashes no box offsets
OldFrag ==
    FragFixture([new("", "sha256", None) EXCEPT !.bmff_version = 1], "sha256")

FileAt(path) ==
    CASE path = "frag.mp4" -> Some(FragFixture(new("", "sha256", None), "sha256").asset)
      [] path = "swapped.mp4" -> Some(SwappedFragments(OldFrag.asset))
      [] path = "repeated.mp4" -> Some(RepeatedFragment(OldFrag.asset))
      [] path = "timed.mp4" -> Some(TimedFixture("sha256").asset)
      [] path = "cut.mp4" -> Some(CutTimed("sha256").asset)
      [] path = "still.heic" -> Some(StillImage)
      [] path = "broken.mp4" -> Some(Malformed)
      [] OTHER -> None

\* hash_from_asset once the path is resolved: file is the file at the path,
\* None when there is none to open
hash_from_file(self, file) ==
    LET alg == IF is_some(self.alg) THEN unwrap(self.alg) ELSE "sha256"
        data == unwrap(file)
        exclusions == bmff_to_jumbf_exclusions(data, self.exclusions,
                                               self.bmff_version > 1)
        hash == hash_stream_by_alg(alg, data, exclusions)
    IN IF is_remote_hash(self)
       THEN [result |-> Err("BadParam", "asset hash is remote, not yet supported"),
             hash |-> None]
       ELSE IF ~is_some(file)
       THEN [result |-> Err("Io", ""), hash |-> None]
       ELSE IF ~data.wf
       THEN [result |-> Err("InvalidAsset", ""), hash |-> None]
       ELSE IF ~is_some(hash)
       THEN [result |-> Err("UnsupportedType", ""), hash |-> None]
       ELSE IF unwrap(hash) = <<>>
       THEN [result |-> Err("BadParam", "could not generate data hash"), hash |-> None]
       ELSE [result |-> Ok, hash |-> hash]

\* BmffHash::hash_from_asset(asset_path): [result, hash]
hash_from_asset(self, asset_path) == hash_from_file(self, FileAt(asset_path))

\* self.hash = Some(hash_from_asset(..)?) and self.path = asset_path: the
\* result and the assertion after it
StoreHash(self, asset_path, r) ==
    IF r.result.ok
    THEN [result |-> Ok, self |-> [self EXCEPT !.hash = r.hash, !.path = asset_path]]
    ELSE [result |-> r.result, self |-> self]

\* a gen_hash that always hashes with sha256
gen_hash_Sha256(self, asset_path) ==
    StoreHash(self, asset_path,
              hash_from_asset([self EXCEPT !.alg = Some("sha256")], asset_path))

\* BmffHash::gen_hash(asset_path): the result and the assertion after it
gen_hash(self, asset_path) ==
    StoreHash(self, asset_path, hash_from_asset(self, asset_path))

\* BmffHash::regen_hash(): the path stays as it is
regen_hash(self) ==
    StoreHash(self, self.path, hash_from_asset(self, self.path))

GenHash ==
    /\ Idle
    /\ \E path \in GenPaths :
        \E r \in {gen_hash(bh, path)} :
          /\ bh' = r.self
          /\ call' = [op |-> "gen_hash", path |-> path, result |-> r.result]
    /\ UNCHANGED <<srcDir, outDir, wire>>

RegenHash ==
    /\ Idle
    /\ \E r \in {regen_hash(bh)} :
          /\ bh' = r.self
          /\ call' = [op |-> "regen_hash", path |-> bh.path, result |-> r.result]
    /\ UNCHANGED <<srcDir, outDir, wire>>

\* verify_hash(asset_path, alg) on a file of the asset directory
VerifyHashAt ==
    /\ Idle
    /\ \E path \in GenPaths, alg \in Hints :
        \E file \in {FileAt(path)} :
          call' = VerifyCall("verify_hash", file, alg, verify_hash(bh, file, alg))
    /\ UNCHANGED <<bh, srcDir, outDir, wire>>

\* verify_stream_hash(reader, alg) on an open file of the asset directory
VerifyStreamAt ==
    /\ Idle
    /\ \E path \in GenPaths \ {"missing.mp4"}, alg \in Hints :
        \E file \in {FileAt(path)} :
          call' = VerifyCall("verify_stream_hash", unwrap(file), alg,
                             verify_stream_hash(bh, unwrap(file), alg))
    /\ UNCHANGED <<bh, srcDir, outDir, wire>>

\* the merkle of the fragmented asset, and the same without its init_hash
FragMerkles ==
    LET m == FragFixture(new("", "sha256", None), "sha256").merkle IN
    {m, Some(<<[unwrap(m)[1] EXCEPT !.init_hash = None]>>)}

\* assertions as BmffHash::new makes them, and as a manifest read from a
\* file may carry them (no alg, a merkle)
GenBases ==
    VerifyBases \cup {new("jumbf manifest", "md5", None)}
      \cup {[new("jumbf manifest", "sha256", None) EXCEPT !.merkle = m] :
              m \in {TimedFixture("sha256").merkle, CutTimed("sha256").merkle}
                      \cup FragMerkles}
      \cup {[new("jumbf manifest", "sha256", None) EXCEPT
                !.bmff_version = 1, !.merkle = OldFrag.merkle]}

InitGen ==
    /\ bh \in GenBases
    /\ srcDir = <<>>
    /\ outDir = <<>>
    /\ call = NoCall
    /\ wire = None

NextGen ==
    GenHash \/ RegenHash \/ ClearHash \/ VerifyHashAt \/ VerifyStreamAt

SpecGen == InitGen /\ [][NextGen]_vars

\* verify_stream_hash is called on a stream that parses with an assertion
\* that is not remote and has no merkle
C21_WholeFile ==
    /\ call.op = "verify_stream_hash"
    /\ ~is_remote_hash(bh)
    /\ ~is_some(bh.merkle)
    /\ call.reader.wf

\* the stored hash is the digest of the non-excluded bytes of the stream
\* under the resolved algorithm
C21_HashMatches ==
    /\ is_some(bh.hash)
    /\ bh.hash = hash_stream_by_alg(C6_Expected, call.reader, ExclusionsOf(call.reader))

\* C21: whole-file generate/verify agreement.  For a non-remote assertion
\* without merkle, verify_stream_hash returns Ok if and only if the stored
\* hash equals the digest of the non-excluded bytes of the stream under the
\* resolved algorithm, and otherwise returns
\* HashMismatch("BMFF file level hash mismatch").
C21_Agreement ==
    C21_WholeFile =>
        /\ call.result.ok <=> C21_HashMatches
        /\ ~call.result.ok =>
              call.result = HashMismatch("BMFF file level hash mismatch")

\* C21, with a stored hash: there the equivalence holds.
C21_AgreementWithHash ==
    (C21_WholeFile /\ is_some(bh.hash)) =>
        /\ call.result.ok <=> C21_HashMatches
        /\ ~call.result.ok =>
              call.result = HashMismatch("BMFF file level hash mismatch")

\* C21, generation: after gen_hash(path) has ended well on an assertion
\* that has an alg and no merkle, as those of BmffHash::new, verify_hash(path, hint)
\* on the file as it is returns Ok for every hint.
C21_GenThenVerify ==
    (call.op = "gen_hash" /\ call.result.ok /\ is_some(bh.alg)
        /\ ~is_some(bh.merkle)) =>
        /\ bh.path = call.path
        /\ \A hint \in Hints :
              verify_hash(bh, FileAt(call.path), hint).ret = Some(Ok)

\* C21 failing case: an assertion of BmffHash::new for which no hash was
\* generated is accepted for a file.
C21_OkWithoutHash ==
    /\ C21_WholeFile
    /\ bh.alg = Some("sha384")
    /\ bh.path = ""
    /\ ~is_some(bh.hash)
    /\ call.result.ok

---------------------------------------------------------------------------
(* COSE signing: cose_sign.rs *)

PAD_OFFSET == 7

\* A CoseSign1 as far as its encoded size goes: the bytes of the protected
\* header, the pairs of unprotected.rest and the bytes of the signature.  A
\* pair is [label, t, n]: a Value::Bytes of n bytes (t = "bstr") or another
\* value whose encoding takes n bytes.
HeaderPair(label, t, n) == [label |-> label, t |-> t, n |-> n]

LabelLen(label) ==
    CASE label = "x5chain" -> 7
      [] label = "sigTst" -> 6
      [] label = "rVals" -> 5
      [] label = "pad" -> 3
      [] label = "pad2" -> 4

RECURSIVE RestLen(_)
RestLen(rest) ==
    IF rest = <<>>
    THEN 0
    ELSE LET e == rest[1] IN
         head_len(LabelLen(e.label)) + LabelLen(e.label)
            + (IF e.t = "bstr" THEN head_len(e.n) + e.n ELSE e.n)
            + RestLen(Tail(rest))

\* to_tagged_vec().len(): tag 18, an array of four: the protected header
\* as a byte string, the unprotected map, the payload (nil, it was cleared)
\* and the signature
tagged_len(sign1) ==
    1 + 1
      + head_len(sign1.protected) + sign1.protected
      + head_len(Len(sign1.rest)) + RestLen(sign1.rest)
      + 1
      + head_len(sign1.signature) + sign1.signature

\* the result of pad_cose_sig: the length of the bytes returned, the pairs
\* of the structure that was encoded and the number of calls made
PadOk(sign1, calls) ==
    [result |-> Ok, len |-> tagged_len(sign1), rest |-> sign1.rest,
     calls |-> calls]
PadErr(e, calls) == [result |-> e, len |-> 0, rest |-> <<>>, calls |-> calls]

CoseSigboxTooSmall == Err("CoseSigboxTooSmall", "")

\* the index of the first pair labelled "pad", 0 when there is none
PadIndex(rest) ==
    IF \E i \in 1..Len(rest) : rest[i].label = "pad"
    THEN CHOOSE i \in 1..Len(rest) :
            /\ rest[i].label = "pad"
            /\ \A j \in 1..(i - 1) : rest[j].label # "pad"
    ELSE 0

\* the loop of pad_cose_sig once a "pad" pair is there: the pad is replaced
\* by target_guess zero bytes, and the guess grows by one until the encoding
\* is end_size bytes long (found) or longer (break)
RECURSIVE pad_loop(_, _, _)
pad_loop(sign1, end_size, target_guess) ==
    LET i == PadIndex(sign1.rest)
        sign1_clone ==
            [sign1 EXCEPT !.rest[i] = HeaderPair("pad", "bstr", target_guess)]
        new_len == tagged_len(sign1_clone)
    IN  IF new_len < end_size
        THEN pad_loop(sign1, end_size, target_guess + 1)
        ELSE [found |-> new_len = end_size, sign1 |-> sign1_clone]

\* last_pad - 10 in usize.  Below 10 it is a panic where overflow is
\* checked; where it wraps, the difference is within 10 of the largest
\* usize and vec![0u8; n] panics, as no allocation has that capacity.
PadTwoLen(last_pad, checked) ==
    IF last_pad >= 10
    THEN [ok |-> TRUE, n |-> last_pad - 10]
    ELSE [ok |-> FALSE, n |-> 0]

\* pad_cose_sig, when the padded structure is encoded as soon as the first
\* pad has been pushed
RECURSIVE pad_cose_sig(_, _, _)
pad_cose_sig_PadOnce(sign1, end_size, checked) ==
    LET cur_size == tagged_len(sign1) IN
    IF cur_size = end_size
    THEN PadOk(sign1, 1)
    ELSE IF cur_size + PAD_OFFSET > end_size
    THEN PadErr(CoseSigboxTooSmall, 1)
    ELSE PadOk([sign1 EXCEPT !.rest =
                   Append(@, HeaderPair("pad", "bstr",
                                        end_size - cur_size - PAD_OFFSET))], 1)

\* pad_cose_sig(sign1, end_size)
pad_cose_sig(sign1, end_size, checked) ==
    LET cur_size == tagged_len(sign1)
        target_guess == end_size - cur_size - PAD_OFFSET
        i == PadIndex(sign1.rest)
        Again(next) ==
            LET r == pad_cose_sig(next, end_size, checked) IN
            [r EXCEPT !.calls = @ + 1]
    IN
    IF cur_size = end_size
    THEN PadOk(sign1, 1)
    ELSE IF cur_size + PAD_OFFSET > end_size
    THEN PadErr(CoseSigboxTooSmall, 1)
    ELSE IF i = 0
    THEN Again([sign1 EXCEPT !.rest =
                   Append(@, HeaderPair("pad", "bstr", target_guess))])
    ELSE LET l == pad_loop(sign1, end_size, target_guess)
             last_pad == IF sign1.rest[i].t = "bstr" THEN sign1.rest[i].n ELSE 0
             two == PadTwoLen(last_pad, checked)
         IN  IF l.found
             THEN PadOk(l.sign1, 1)
             ELSE IF ~two.ok
             THEN PadErr(Panic(IF checked
                               THEN "attempt to subtract with overflow"
                               ELSE "capacity overflow"), 1)
             ELSE Again([sign1 EXCEPT !.rest =
                            Append(@, HeaderPair("pad2", "bstr", two.n))])

\* A Signer as far as cose_sign goes: the result of certs() with the
\* lengths of the certificates, the length of the COSE algorithm id, the
\* length of the signature or a failure of sign(), and the length of the
\* OCSP response if there is one.  No time authority is set.
Signer(certs, alg_len, sig, ocsp) ==
    [certs |-> certs, alg_len |-> alg_len, sig |-> sig, ocsp |-> ocsp]

RECURSIVE BytesArrayLen(_)
BytesArrayLen(lens) ==
    IF lens = <<>>
    THEN 0
    ELSE head_len(lens[1]) + lens[1] + BytesArrayLen(Tail(lens))

\* build_unprotected_header: the protected header is the map {1: alg}; a
\* single certificate is a byte string, several are an array of byte
\* strings; rVals is {"ocspVals": [ocsp]}
build_unprotected_header(signer) ==
    LET certs == unwrap(signer.certs)
        x5chain ==
            IF Len(certs) = 1
            THEN HeaderPair("x5chain", "bstr", certs[1])
            ELSE HeaderPair("x5chain", "other",
                            head_len(Len(certs)) + BytesArrayLen(certs))
        rVals ==
            IF is_some(signer.ocsp)
            THEN <<HeaderPair("rVals", "other",
                              1 + 1 + 8 + 1 + head_len(unwrap(signer.ocsp))
                                + unwrap(signer.ocsp))>>
            ELSE <<>>
    IN  [protected |-> 1 + 1 + signer.alg_len, rest |-> <<x5chain>> \o rVals]

\* the CoseSign1 cose_sign builds and signs, its payload cleared
Sign1Of(signer) ==
    LET h == build_unprotected_header(signer) IN
    [protected |-> h.protected, rest |-> h.rest,
     signature |-> unwrap(signer.sig)]

Signs(signer) == is_some(signer.certs) /\ is_some(signer.sig)

\* cose_sign(signer, data, box_size)
cose_sign(signer, box_size, checked) ==
    IF ~is_some(signer.certs)
    THEN PadErr(Err("CoseX5ChainMissing", ""), 0)
    ELSE IF ~is_some(signer.sig)
    THEN PadErr(Err("CoseSignature", ""), 0)
    ELSE pad_cose_sig(Sign1Of(signer), box_size, checked)

\* sign_claim(claim_bytes, signer, box_size): valid_claim is the outcome
\* of Claim::from_data and verifies that of verify_cose
sign_claim(valid_claim, signer, box_size, verifies, checked) ==
    IF ~valid_claim
    THEN PadErr(Err("ClaimDecoding", ""), 0)
    ELSE LET sig == cose_sign(signer, box_size, checked) IN
         IF ~sig.result.ok
         THEN sig
         ELSE IF verifies THEN sig
         ELSE PadErr(Err("CoseSignature", "verify_cose"), sig.calls)

Signers ==
    { Signer(Some(<<20>>), 1, Some(64), None),
      Signer(Some(<<20, 30>>), 2, Some(96), Some(12)),
      Signer(Some(<<300>>), 2, Some(256), None),
      Signer(None, 1, Some(64), None),
      Signer(Some(<<20>>), 1, None, None) }

\* the distances from the unpadded size to the reserved size: around
\* PAD_OFFSET, and around the pads of 24, 256 and 65536 bytes
Gaps ==
    (0..40) \cup (260..266) \cup {1000, 9000} \cup (65540..65548) \cup {70000}

\* the structures pad_cose_sig is called on: those cose_sign builds, and
\* the same with a pad in them already
Sign1s ==
    LET built == {Sign1Of(g) : g \in {x \in Signers : Signs(x)}}
    IN  built \cup
        { [b EXCEPT !.rest = Append(@, HeaderPair("pad", "bstr", p))] :
            b \in built, p \in {0, 5, 10, 16} }

PadCoseSig ==
    /\ call = NoCall
    /\ \E sign1 \in Sign1s, gap \in Gaps, checked \in BOOLEAN :
          call' = [op |-> "pad_cose_sig", sign1 |-> sign1,
                   cur_size |-> tagged_len(sign1),
                   end_size |-> tagged_len(sign1) + gap,
                   out |-> pad_cose_sig(sign1, tagged_len(sign1) + gap, checked)]
    /\ UNCHANGED <<bh, srcDir, outDir, wire>>

\* the size of the structure cose_sign builds for a signer
UnpaddedSize == {tagged_len(Sign1Of(g)) : g \in {x \in Signers : Signs(x)}}

BoxSizes ==
    {50, 10000} \cup {n + gap : n \in UnpaddedSize, gap \in {0, 3, 7, 20, 262, 300}}

CoseSign ==
    /\ call = NoCall
    /\ \E signer \in Signers, box_size \in BoxSizes :
          call' = [op |-> "cose_sign", signer |-> signer,
                   box_size |-> box_size,
                   out |-> cose_sign(signer, box_size, TRUE)]
    /\ UNCHANGED <<bh, srcDir, outDir, wire>>

SignClaim ==
    /\ call = NoCall
    /\ \E valid_claim \in BOOLEAN, signer \in Signers, box_size \in BoxSizes,
          verifies \in BOOLEAN :
          call' = [op |-> "sign_claim", signer |-> signer,
                   box_size |-> box_size, valid_claim |-> valid_claim,
                   out |-> sign_claim(valid_claim, signer, box_size, verifies, TRUE)]
    /\ UNCHANGED <<bh, srcDir, outDir, wire>>

InitCose ==
    /\ bh = new("jumbf manifest", "sha256", None)
    /\ srcDir = <<>>
    /\ outDir = <<>>
    /\ call = NoCall
    /\ wire = None

NextCose == PadCoseSig \/ CoseSign \/ SignClaim

SpecCose == InitCose /\ [][NextCose]_vars

CoseOps == {"pad_cose_sig", "cose_sign", "sign_claim"}

\* C22: sign_claim and cose_sign pad the COSE_Sign1 to the reserved size.
\* Every Ok result has exactly box_size bytes, and when box_size is smaller
\* than the signature that was generated the result is an error, which is
\* CoseSigboxTooSmall when the padding is reached and nothing after it
\* fails; a value of another length is never returned.
C22_PaddedToBoxSize ==
    /\ call.op \in {"cose_sign", "sign_claim"} =>
          /\ call.out.result.ok => call.out.len = call.box_size
          /\ (/\ Signs(call.signer)
              /\ call.box_size < tagged_len(Sign1Of(call.signer))) =>
                /\ ~call.out.result.ok
                /\ (call.op = "cose_sign" \/ call.valid_claim) =>
                      call.out.result = CoseSigboxTooSmall
    /\ call.op = "pad_cose_sig" =>
          /\ call.out.result.ok => call.out.len = call.end_size
          /\ call.end_size < call.cur_size =>
                call.out.result = CoseSigboxTooSmall

\* C22 witness: sign_claim has returned a signature that a pad brought to
\* the reserved size.
C22_Witness ==
    /\ call.op = "sign_claim"
    /\ call.out.result.ok
    /\ call.out.len = call.box_size
    /\ PadIndex(call.out.rest) # 0

\* pad_cose_sig is called on a structure without a pad, and the reserved
\* size is the size of the structure or at least PAD_OFFSET more
C30_Room ==
    /\ call.op = "pad_cose_sig"
    /\ PadIndex(call.sign1.rest) = 0
    /\ \/ call.end_size = call.cur_size
       \/ call.end_size >= call.cur_size + PAD_OFFSET

\* C30: pad_cose_sig succeeds whenever there is room.  For every unpadded
\* COSE_Sign1 of encoded size s and every end_size with end_size = s or
\* end_size >= s + PAD_OFFSET the call returns Ok with exactly end_size
\* bytes, and it does so without a panic of last_pad - 10.
C30_RoomSucceeds ==
    C30_Room =>
        /\ call.out.result.ok
        /\ call.out.len = call.end_size

\* C30, the part that holds: on an unpadded structure the call ends after
\* at most two calls of pad_cose_sig and last_pad - 10 is never computed.
C30_TwoCallsNoUnderflow ==
    C30_Room =>
        /\ call.out.calls <= 2
        /\ call.out.result.err # "panic"

\* C30 failing case: with room for a pad of 13 bytes the call answers
\* CoseSigboxTooSmall.
C30_TooSmallWithRoom ==
    /\ C30_Room
    /\ call.end_size = call.cur_size + PAD_OFFSET + 13
    /\ call.out.result = CoseSigboxTooSmall

---------------------------------------------------------------------------
(* The algorithm of the Merkle digests *)

\* verify_stream_hash is called with a hint on a stream that parses, for an
\* assertion that is not remote, has no alg and has MerkleMaps without alg
C23_HintOnly ==
    /\ call.op = "verify_stream_hash"
    /\ call.reader.wf
    /\ ~is_remote_hash(bh)
    /\ ~is_some(bh.alg)
    /\ is_some(bh.merkle)
    /\ unwrap(bh.merkle) # <<>>
    /\ \A k \in 1..Len(unwrap(bh.merkle)) : ~is_some(unwrap(bh.merkle)[k].alg)
    /\ is_some(call.alg)

\* C23: the caller's algorithm hint applies to every digest of the call.
\* For an assertion with no alg whose MerkleMaps carry no alg the Merkle
\* digests are computed with the hint, and HashMismatch("no algorithm
\* found") is returned only when the resolved algorithm is not one of
\* sha256, sha384 and sha512.
C23_HintApplies ==
    (C23_HintOnly /\ unwrap(call.alg) \in SupportedAlgs) =>
        call.result # HashMismatch("no algorithm found")

\* C23 failing case: the file hash is absent or verified with the hint
\* sha384, and the call ends with "no algorithm found" at the first
\* MerkleMap.
C23_HintIgnored ==
    /\ C23_HintOnly
    /\ call.alg = Some("sha384")
    /\ call.result = HashMismatch("no algorithm found")

---------------------------------------------------------------------------
(* The locations add_merkle_for_mpd gives to the segments *)

\* the location written into the C2PA Merkle box of a segment file
LocationIn(file) == read_bmff_c2pa_boxes(file).bmff_merkle[1].location

\* add_merkle_for_mpd has ended well on a directory of segments
C24_Prepared ==
    /\ call.op = "add_merkle_for_mpd"
    /\ call.result.ok
    /\ Len(srcDir) > 0

\* C24, first part: the locations 0..N-1 are given to the N segments
\* one-to-one.
C24_OneToOne ==
    C24_Prepared =>
        /\ \A f \in 1..Len(outDir) : LocationIn(outDir[f]) \in 0..(Len(outDir) - 1)
        /\ \A f, g \in 1..Len(outDir) :
              LocationIn(outDir[f]) = LocationIn(outDir[g]) => f = g

\* C24: deterministic locations.  The location of each segment file is a
\* function of the contents of the directory only: a run over the same
\* directory whose listing is enumerated in another order gives every
\* segment the same location.
C24_SameLocations ==
    C24_Prepared =>
        \A ord \in DirOrders(Len(srcDir)) :
            LET again == add_merkle_for_mpd(bh, call.alg, srcDir, ord,
                                            call.local_id, call.unique_id)
            IN  \A f \in 1..Len(srcDir) :
                   LocationIn(again.out[f]) = LocationIn(outDir[f])

\* C24 failing case: the listing came in reverse, and the first of two
\* segment files has location 1.
C24_OrderDecides ==
    /\ C24_Prepared
    /\ Len(srcDir) = 2
    /\ call.ord = <<2, 1>>
    /\ LocationIn(outDir[1]) = 1
    /\ LocationIn(add_merkle_for_mpd(bh, call.alg, srcDir, <<1, 2>>,
                                     call.local_id, call.unique_id).out[1]) = 0

---------------------------------------------------------------------------
(* Timed media: the chunks a verification covers *)

\* verify_stream_hash has returned Ok for an asset with a moov box and no
\* moof, and an assertion with MerkleMaps
C25_TimedOk ==
    /\ call.op = "verify_stream_hash"
    /\ call.result.ok
    /\ is_some(bh.merkle)
    /\ unwrap(bh.merkle) # <<>>
    /\ Positions(call.reader.boxes, is_moof) = {}
    /\ Positions(call.reader.boxes, is_moov) # {}

\* chunk c of the track of mm has a BmffMerkleMap box of location c - 1
\* with which the digest of the chunk replays into mm
C25_ChunkCovered(mm, c) ==
    LET alg == unwrap(MmAlg(bh, mm))
        boxes == read_bmff_c2pa_boxes(call.reader).bmff_merkle
    IN  \E j \in 1..Len(boxes) :
           /\ boxes[j].local_id = mm.local_id
           /\ boxes[j].location = c - 1
           /\ check_merkle_tree(mm, alg,
                                ChunkDigest(alg, call.reader.tracks[mm.local_id][c]),
                                c - 1, boxes[j].hashes)

\* C25: timed-media verification covers every chunk.  When
\* verify_stream_hash returns Ok for a moov asset with merkle, every chunk c
\* of the track of each MerkleMap has been hashed and its digest replayed
\* with the BmffMerkleMap whose location is c - 1; a chunk without a box
\* makes the call fail.
C25_EveryChunk ==
    C25_TimedOk =>
        \A k \in 1..Len(unwrap(bh.merkle)) :
            LET mm == unwrap(bh.merkle)[k] IN
            mm.local_id \in DOMAIN call.reader.tracks =>
                \A c \in 1..Len(call.reader.tracks[mm.local_id]) :
                    C25_ChunkCovered(mm, c)

\* C25 failing case: Ok for a track of two chunks with a single box; the
\* second chunk was hashed and compared with nothing.
C25_ChunkWithoutBox ==
    /\ C25_TimedOk
    /\ Len(unwrap(bh.merkle)) = 1
    /\ unwrap(bh.merkle)[1].count = 1
    /\ Len(call.reader.tracks[1]) = 2
    /\ Len(read_bmff_c2pa_boxes(call.reader).bmff_merkle) = 1
    /\ C25_ChunkCovered(unwrap(bh.merkle)[1], 1)
    /\ ~C25_ChunkCovered(unwrap(bh.merkle)[1], 2)

---------------------------------------------------------------------------
(* Fragment chunking *)

RECURSIVE C26_Concat(_)
C26_Concat(chunks) ==
    IF chunks = <<>> THEN <<>> ELSE chunks[1] \o C26_Concat(Tail(chunks))

\* the positions of the boxes whose bytes the hasher is fed under ranges
C26_Fed(reader, ranges) ==
    {p \in 1..Len(reader.boxes) : \A e \in ranges : e.pos # p}

\* the exclusions of the file that fall into a chunk, as positions in the
\* chunk
C26_Within(exclusions, first, last) ==
    {[pos |-> e.pos - first + 1, bmff_offset |-> e.bmff_offset] :
        e \in {x \in exclusions : x.pos \in first..last}}

\* C26: fragment chunking.  split_fragment_boxes returns one chunk per
\* top-level moof, each chunk starts with that moof, boxes before the first
\* moof are in no chunk, and the chunks concatenated are the box list from
\* the first moof on; the digest computed for chunk k covers exactly the
\* non-excluded bytes from its first box to the end of its last box (where
\* no offsets are hashed, it is the digest of those boxes alone), and the
\* byte ranges of the chunks are disjoint and increasing.
C26_Chunking ==
    (call.op = "verify_stream_hash" /\ call.reader.wf) =>
        LET boxes == call.reader.boxes
            moofs == Positions(boxes, is_moof)
            chunks == split_fragment_boxes(boxes)
            exclusions == ExclusionsOf(call.reader)
            first(k) == chunks[k][1]
            last(k) == chunks[k][Len(chunks[k])]
        IN  /\ Len(chunks) = Cardinality(moofs)
            /\ \A k \in 1..Len(chunks) :
                  /\ chunks[k] # <<>>
                  /\ is_moof(boxes[first(k)])
                  /\ \A i \in 2..Len(chunks[k]) : ~is_moof(boxes[chunks[k][i]])
            /\ moofs # {} =>
                  C26_Concat(chunks) =
                      AsSeq([i \in 1..(Len(boxes) - MinOf(moofs) + 1) |->
                               MinOf(moofs) + i - 1])
            /\ \A k \in 1..Len(chunks) :
                  LET curr == chunk_exclusions(call.reader, exclusions, chunks[k]) IN
                  /\ C26_Fed(call.reader, curr) =
                        {p \in first(k)..last(k) : \A e \in exclusions : e.pos # p}
                  /\ bh.bmff_version = 1 =>
                        \A alg \in SupportedAlgs :
                            hash_stream_by_alg(alg, call.reader, curr) =
                                hash_stream_by_alg(alg,
                                    Stream(SubSeq(boxes, first(k), last(k))),
                                    C26_Within(exclusions, first(k), last(k)))
            /\ \A k \in 1..(Len(chunks) - 1) : last(k) < first(k + 1)

\* C26 witness: a file with boxes ahead of its first moof was cut into two
\* chunks, both were hashed and the call returned Ok.
C26_Witness ==
    /\ call.op = "verify_stream_hash"
    /\ call.result.ok
    /\ is_some(bh.merkle)
    /\ unwrap(bh.merkle) # <<>>
    /\ Len(split_fragment_boxes(call.reader.boxes)) = 2
    /\ MinOf(Positions(call.reader.boxes, is_moof)) > 1
    /\ Cardinality({i \in 1..Len(call.log) : call.log[i].what = "chunk"}) = 2

---------------------------------------------------------------------------
(* The algorithm of the init hash: update_mpd_hash and verify_stream_segment *)

\* update_mpd_hash(init) has filled the init_hash of the single MerkleMap
\* of an assertion that is not remote and has no file-level hash
C27_Updated ==
    /\ call.op = "update_mpd_hash"
    /\ call.result.ok
    /\ ~is_remote_hash(bh)
    /\ ~is_some(bh.hash)
    /\ Len(unwrap(bh.merkle)) = 1

\* C27: init-hash algorithm agreement between generation and
\* verification.  For every combination of MerkleMap.alg, assertion alg and
\* caller hint, verify_stream_segment(init, None, hint) on the init file
\* update_mpd_hash has just hashed returns Ok.
C27_InitAgreement ==
    C27_Updated =>
        \A hint \in Hints :
            verify_stream_segment(bh, call.init, None, hint).ret = Some(Ok)

\* C27, the combinations in which both sides resolve to the alg of the
\* assertion: there the init file verifies.
C27_AssertionAlg ==
    (/\ C27_Updated
     /\ is_some(bh.alg)
     /\ unwrap(bh.merkle)[1].alg \in {None, bh.alg}) =>
        \A hint \in Hints :
            verify_stream_segment(bh, call.init, None, hint).ret = Some(Ok)

\* C27 failing case: the MerkleMap was made for sha384 by an assertion of
\* sha256, and the init file that was just hashed does not verify.
C27_AlgsDiffer ==
    /\ C27_Updated
    /\ bh.alg = Some("sha256")
    /\ unwrap(bh.merkle)[1].alg = Some("sha384")
    /\ unwrap(bh.merkle)[1].init_hash
          = hash_stream_by_alg("sha384", call.init, ExclusionsOf(call.init))
    /\ verify_stream_segment(bh, call.init, None, None).ret
          = Some(HashMismatch("BMFF inithash mismatch"))

---------------------------------------------------------------------------
(* A fragmented single file: what a verification covers and binds *)

\* verify_stream_hash has returned Ok for an asset with a top-level moof
\* and an assertion with MerkleMaps
C28_FragmentedOk ==
    /\ call.op = "verify_stream_hash"
    /\ call.result.ok
    /\ is_some(bh.merkle)
    /\ unwrap(bh.merkle) # <<>>
    /\ Positions(call.reader.boxes, is_moof) # {}

\* the number of digests of kind what the call has computed and compared
C28_Compared(what) ==
    Cardinality({i \in 1..Len(call.log) :
                    call.log[i].ev \in {"verify", "hash"} /\ call.log[i].what = what})

\* C28: full coverage of a fragmented single file.  When verify_stream_hash
\* returns Ok for an asset with a top-level moof and an assertion with
\* merkle, the bytes before the first moof are covered by an init_hash or
\* by the file-level hash that was compared and matched, and every chunk
\* from the first moof on by a leaf of each MerkleMap; a MerkleMap without
\* init_hash, and no file-level hash, is not accepted.
C28_FullCoverage ==
    C28_FragmentedOk =>
        /\ C28_Compared("file") + C28_Compared("init") > 0
        /\ C28_Compared("chunk") =
              Len(split_fragment_boxes(call.reader.boxes)) * Len(unwrap(bh.merkle))
        /\ \/ is_some(bh.hash)
           \/ \A k \in 1..Len(unwrap(bh.merkle)) :
                 is_some(unwrap(bh.merkle)[k].init_hash)

\* C28 failing case: no file-level hash, a MerkleMap without init_hash, and
\* the file is accepted with the boxes ahead of its first moof compared
\* with nothing.
C28_InitUncovered ==
    /\ C28_FragmentedOk
    /\ ~is_some(bh.hash)
    /\ Len(unwrap(bh.merkle)) = 1
    /\ ~is_some(unwrap(bh.merkle)[1].init_hash)
    /\ C28_Compared("file") + C28_Compared("init") = 0
    /\ C28_Compared("chunk") = 2
    /\ \E p \in 1..(MinOf(Positions(call.reader.boxes, is_moof)) - 1) :
          \A e \in ExclusionsOf(call.reader) : e.pos # p

\* C29: location binding in fragmented single-file verification.  When
\* verify_stream_hash returns Ok, the BmffMerkleMap paired with the k-th
\* moof chunk has location k (from 0), so that each leaf location is
\* verified once and in file order; a file whose fragments are reordered,
\* or in which one fragment replaces another, is rejected.
C29_LocationBinding ==
    C28_FragmentedOk =>
        LET bmff_merkle == read_bmff_c2pa_boxes(call.reader).bmff_merkle IN
        \A k \in 1..Len(bmff_merkle) : bmff_merkle[k].location = k - 1

\* C29 failing case: the two fragments of the file are in the other order,
\* the first chunk is paired with the box of location 1, and the call
\* returns Ok.
C29_ReorderedAccepted ==
    /\ C28_FragmentedOk
    /\ call.reader = SwappedFragments(OldFrag.asset)
    /\ read_bmff_c2pa_boxes(call.reader).bmff_merkle[1].location = 1
    /\ read_bmff_c2pa_boxes(call.reader).bmff_merkle[2].location = 0
    /\ C28_Compared("chunk") = 2

====
